---- MODULE Spec2Model ----
(***************************************************************************)
(* Voice pipeline of kabolai: the shared AssistantState (core/state.py),   *)
(* the Assistant orchestrator (assistant.py) and the AudioRecorder         *)
(* segmenter (audio/recorder.py), modelled as interleaved threads.  Every  *)
(* access to a shared field is its own step unless it is made under        *)
(* AssistantState._lock, in which case the locked block is one step.       *)
(***************************************************************************)
EXTENDS Integers, Sequences, FiniteSets, TLC

\* ---------------------------------------------------------------- bounds
NumCallers == 3       \* threads that use AssistantState directly
StartTime == 100      \* time.monotonic() when the program starts (seconds)
TickStep == 31        \* seconds by which one clock step advances
MaxTicks == 2         \* clock steps taken in one behaviour
NumPTT == 1           \* push-to-talk presses (one handle_voice thread each)
MaxUtter == 2         \* utterances the continuous listener detects
MaxToggles == 2       \* toggle-active commands
MaxRecordSeconds == 3 \* largest config.audio.max_record_seconds of the configurations explored
MaxCalibrations == 2  \* calibrate() calls counted
NumEmitters == 2      \* runs that emit events concurrently
MaxEmits == 2         \* events each of them emits
MaxCallbacks == 2     \* callbacks registered with add_event_callback

\* ------------------------------------------------------ program constants
PIPELINE_TIMEOUT == 60
PLAYBACK_TIMEOUT == 30
MIN_SPEECH_DURATION == 3   \* 0.3 s, in tenths of a second
PRE_BUFFER_DURATION == 5   \* 0.5 s, in tenths of a second
silence_duration == 15     \* AudioConfig.silence_duration = 1.5 s, in tenths of a second
default_chunks_per_second == 4   \* AudioConfig: sample_rate 16000 / chunk_size 4000
default_silence_threshold == 500 \* AudioConfig.silence_threshold
SPEECH_MULTIPLIER == 3           \* speech threshold = ambient * this
MIN_SPEECH_THRESHOLD == 100      \* absolute minimum speech threshold
\* chunk rates of the configurations explored: chunk_size 16000, 4000 and 1600
\* at 16 kHz
ChunkRates == {1, default_chunks_per_second, 10}

NoThread == <<"none", 0>>
None == 0             \* Python's None where an utterance is expected
Callers == {<<"caller", i>> : i \in 1..NumCallers}
PTT == {<<"ptt", i>> : i \in 1..NumPTT}
Cont == {<<"cont", u>> : u \in 1..MaxUtter}
Listener == <<"listener", 0>>
Main == <<"main", 0>>
Runners == PTT \cup Cont
Emitters == {<<"run", i>> : i \in 1..NumEmitters}
Threads == Callers \cup Runners \cup {Listener, Main}

VARIABLES
    now,              \* time.monotonic()
    voice_lock,       \* AssistantState._voice_lock.locked()
    pipeline_start,   \* AssistantState._pipeline_start (0 = not running)
    is_listening, is_processing, is_speaking, is_active,
    cancel,           \* Assistant._cancel.is_set()
    pending_audio,    \* Assistant._pending_audio (None or an utterance)
    audio,            \* audio_data argument of each _process_continuous_speech thread
    playing,          \* thread whose reply the AudioPlayer is playing
    detected,         \* utterances handed to on_speech_detected so far
    toggles,          \* toggle-active commands issued so far
    pc,               \* position of every thread
    ret,              \* where a thread continues when the method it is in returns
    result,           \* value returned by the thread's last try_start_pipeline
    last_event,       \* history: kind of the last event the thread's current run emitted
    ends,             \* history: end_pipeline calls made by the thread's current run
    intr,             \* history: "no", "set" (interrupt() called during the run),
                      \*   "passed" (a checkpoint was passed since), "late" (a stage
                      \*   side effect followed)
    early,            \* history: interrupt() was called before the run's recognition completed
    owner,            \* history: thread that acquired _voice_lock last
    heard,            \* history: latest utterance accepted by on_speech_detected
    last_run,         \* history: utterance of the latest continuous run started
    held_since,       \* history: time of the acquire that holds _voice_lock (0 = free)
    chunks_per_second,  \* AudioRecorder: sample_rate / chunk_size of the configuration
    max_record_seconds, \* AudioRecorder.max_record_seconds of the configuration
    listening,        \* AudioRecorder: "idle", "record" (inside record()), "record_ret",
                      \*   "continuous" (the listener thread is inside _wait_for_speech)
    chunks,           \* len(chunks) of the loop the recorder is in
    silence_count,    \* silence_chunks of record(), silence_count of _wait_for_speech
    speech_count,     \* speech_count of _wait_for_speech; in record() history: frames
                      \*   at or above the threshold
    recording,        \* `recording` of _wait_for_speech, has_speech of record()
    pre_buffer,       \* the pre_buffer deque: its frames, oldest first, each written
                      \*   as its age (frames received since it, 0 = the latest)
    head,             \* history: the frames `chunks = list(pre_buffer)` began with
    recent,           \* history: the last frames received outside cooldown in the
                      \*   current wait, at most pre_buffer_size, as ages
    since_clear,      \* history: frames received in a row outside cooldown in the
                      \*   current wait, counted up to pre_buffer_size
    cooling,          \* time.monotonic() < self._cooldown_until
    last_out,         \* history: outcome of the last utterance, until the next one
                      \*   begins: <<kind, speech frames, frames, callback
                      \*   invocations, stop condition>>
    stale_end,        \* history: threads inside an end_pipeline call that began while
                      \*   another run, the latest to acquire the slot, was active
    stale,            \* history: the caller's try_start_pipeline call began while the
                      \*   slot had been held for longer than PIPELINE_TIMEOUT, and no
                      \*   holder has made a call since
    language,         \* AssistantState.language
    is_running,       \* AssistantState.is_running
    calls,            \* history: the last two calls the client of the state object
                      \*   completed, oldest first: the method, the value returned,
                      \*   whether the call before it was to the same method, whether
                      \*   the slot was held and held too long when the call began
    before,           \* history: the state object's fields when the client's latest
                      \*   call began
    halting,          \* history: for each thread inside interrupt(), the runs that
                      \*   were in flight when it set the cancellation signal
    halted,           \* history: runs in flight for which such an interrupt() call
                      \*   has returned
    response_text,    \* response_text of each thread's _process call: "none" (not
                      \*   assigned yet, or handed to _speak_response already),
                      \*   "brain" (brain_response.response_text),
                      \*   "speak" (the action result's speak text), "error" (the
                      \*   localized "Error executing command.")
    fault,            \* history: what went wrong in the action step the thread's run
                      \*   has just left: "none", "action" (registry.execute raised),
                      \*   "failure" (the action result has success = False)
    config_silence_threshold, \* config.audio.silence_threshold of the configuration
    ambient,          \* RMS of the ambient noise sd.rec captures in this room
    device_ok,        \* the capture device is available: sd.rec / sd.InputStream
                      \*   raise PortAudioError when it is not
    calibrated,       \* AudioRecorder._calibrated
    speech_threshold, \* AudioRecorder._speech_threshold
    silence_threshold, \* AudioRecorder.silence_threshold
    calibrations,     \* history: calibrate() calls made so far (counted up to
                      \*   MaxCalibrations)
    failed,           \* history: the cycle the latest device error aborted:
                      \*   "none", "record" or "continuous"
    event_queue,      \* Assistant._event_queue, oldest event first
    event_callbacks,  \* Assistant._event_callbacks
    epc,              \* position of every emitting run inside _emit_event
    cb_index,         \* index of `for cb in self._event_callbacks` in that call
    emits,            \* events each emitting run has produced so far
    emitted,          \* history: the events in the order they were put
    dpc,              \* position of the polling thread inside drain_events
    events,           \* the local list `events` of drain_events
    called,           \* history: the callbacks each emitting run has invoked for
                      \*   its latest event, each with how it ended
    drained,          \* history: the lists returned by drain_events, concatenated
    actions,          \* ActionRegistry._actions: name -> ActionMeta (or NoMeta)
    executed,         \* history: the latest registry.execute call and its outcome
    tts_muted,        \* Assistant.tts_muted
    stopped,          \* AudioPlayer._stopped
    stream,           \* sounddevice's output stream: "none", "active" (playing)
                      \*   or "ended" (still there, no longer active)
    wpc,              \* position of the playing thread inside _wait_with_timeout
    elapsed,          \* whole seconds since `start = time.monotonic()` of that wait
    wait_result,      \* history: why the latest wait returned
    kpc               \* position of the thread that runs AudioPlayer.stop

sVars == <<voice_lock, pipeline_start, is_listening, is_processing, is_speaking, is_active>>
flags == <<is_listening, is_processing, is_speaking>>
aVars == <<cancel, pending_audio, audio, playing, detected, toggles>>
tVars == <<pc, ret, result>>
hVars == <<last_event, ends, intr, early, owner, heard, last_run>>
wVars == <<held_since, stale, stale_end>>
cVars == <<chunks_per_second, max_record_seconds, config_silence_threshold, ambient>>
kVars == <<device_ok, calibrated, speech_threshold, silence_threshold,
           calibrations, failed>>
oVars == <<language, is_running, calls, before>>
iVars == <<halting, halted>>
qVars == <<event_queue, event_callbacks, epc, cb_index, emits, emitted, dpc, events,
           drained, called>>
gVars == <<actions, executed>>
mVars == <<tts_muted>>
lVars == <<stopped, stream, wpc, elapsed, wait_result, kpc>>
xVars == <<qVars, gVars, mVars, lVars>>
eVars == <<response_text, fault>>
rVars == <<cVars, kVars, listening, chunks, silence_count, speech_count,
           recording, pre_buffer, head, recent, since_clear, cooling, last_out>>
vars == <<now, sVars, aVars, tVars, hVars, wVars, rVars, oVars, iVars, eVars, xVars>>

Goto(t, p) == pc' = [pc EXCEPT ![t] = p]
Call(t, entry, back) == /\ pc' = [pc EXCEPT ![t] = entry]
                        /\ ret' = [ret EXCEPT ![t] = back]
Return(t) == /\ pc' = [pc EXCEPT ![t] = ret[t]]
             /\ ret' = [ret EXCEPT ![t] = "none"]

\* positions between a run's successful try_start_pipeline and its end_pipeline
RunPcs == {"run_clear", "hv_listen", "hv_record", "run_processing", "p_stt",
           "p_brain", "p_action", "p_tts", "sp_check", "sp_synth",
           "sp_play", "play_wav", "sp_wait", "sp_except", "sp_finally"}
\* positions of a run whose recognition has not completed yet
PreSttPcs == {"hv_listen", "hv_record", "run_processing", "p_stt"}

StartedPcs == {"hv_started", "hv_retry", "pcs_started"}

\* --------------------------------------------------------- AssistantState
is_busy == is_listening \/ is_processing \/ is_speaking

\* with self._lock: clear the three flags and the watchdog timestamp
clear_flags == /\ is_listening' = FALSE
               /\ is_processing' = FALSE
               /\ is_speaking' = FALSE
               /\ pipeline_start' = 0

\* try_start_pipeline, `if self._pipeline_start > 0:` (first read)
ts_check(t) ==
    /\ pc[t] = "ts_check"
    /\ Goto(t, IF pipeline_start > 0 THEN "ts_elapsed" ELSE "ts_acquire")
    /\ UNCHANGED <<now, sVars, aVars, hVars, ret, result>>
    /\ UNCHANGED wVars
    /\ UNCHANGED <<xVars, rVars, eVars, oVars, iVars>>

\* elapsed = time.monotonic() - self._pipeline_start (second read)
Elapsed == now - pipeline_start

ts_elapsed(t) ==
    /\ pc[t] = "ts_elapsed"
    /\ Goto(t, IF Elapsed > PIPELINE_TIMEOUT THEN "ts_reset" ELSE "ts_acquire")
    /\ UNCHANGED <<now, sVars, aVars, hVars, ret, result>>
    /\ UNCHANGED wVars
    /\ UNCHANGED <<xVars, rVars, eVars, oVars, iVars>>

\* self.force_reset() inside the watchdog branch
ts_reset(t) ==
    /\ pc[t] = "ts_reset"
    /\ clear_flags
    /\ Goto(t, "ts_release")
    /\ UNCHANGED <<now, voice_lock, is_active, aVars, hVars, ret, result>>
    /\ UNCHANGED wVars
    /\ UNCHANGED <<xVars, rVars, eVars, oVars, iVars>>

\* if self._voice_lock.locked(): release (a RuntimeError is swallowed)
ts_release(t) ==
    /\ pc[t] = "ts_release"
    /\ voice_lock' = FALSE
    /\ Goto(t, "ts_acquire")
    /\ UNCHANGED <<now, pipeline_start, flags, is_active, aVars, hVars, ret, result>>
    /\ held_since' = 0
    /\ UNCHANGED <<stale, stale_end>>
    /\ UNCHANGED <<xVars, rVars, eVars, oVars, iVars>>

\* acquired = self._voice_lock.acquire(blocking=False)
Acquired == ~voice_lock

ts_acquire(t) ==
    /\ pc[t] = "ts_acquire"
    /\ IF Acquired
       THEN /\ voice_lock' = TRUE
            /\ owner' = t
            /\ Goto(t, "ts_stamp")
            /\ UNCHANGED <<ret, result>>
       ELSE /\ result' = [result EXCEPT ![t] = FALSE]
            /\ Return(t)
            /\ UNCHANGED <<voice_lock, owner>>
    /\ UNCHANGED <<now, pipeline_start, flags, is_active, aVars>>
    /\ UNCHANGED <<last_event, ends, intr, early, heard, last_run>>
    /\ held_since' = IF Acquired THEN now ELSE held_since
    /\ UNCHANGED <<stale, stale_end>>
    /\ UNCHANGED <<xVars, rVars, eVars, oVars, iVars>>

\* with self._lock: self._pipeline_start = time.monotonic(); return True
ts_stamp(t) ==
    /\ pc[t] = "ts_stamp"
    /\ pipeline_start' = now
    /\ result' = [result EXCEPT ![t] = TRUE]
    /\ Return(t)
    /\ UNCHANGED <<now, voice_lock, flags, is_active, aVars, hVars>>
    /\ UNCHANGED wVars
    /\ UNCHANGED <<xVars, rVars, eVars, oVars, iVars>>

try_start_pipeline(t) ==
    \/ ts_check(t) \/ ts_elapsed(t) \/ ts_reset(t)
    \/ ts_release(t) \/ ts_acquire(t) \/ ts_stamp(t)

\* another thread was the latest to acquire the slot and its run is active
NewerRunActive(t) ==
    /\ owner # t
    /\ owner # NoThread
    /\ \/ pc[owner] \in RunPcs \cup {"hold"}
       \/ pc[owner] \in StartedPcs \cup {"c_started"} /\ result[owner]

\* end_pipeline clearing is_listening and is_processing only
end_clear_two(t) ==
    /\ pc[t] = "end_clear"
    /\ is_listening' = FALSE
    /\ is_processing' = FALSE
    /\ pipeline_start' = 0
    /\ ends' = IF t \in Runners THEN [ends EXCEPT ![t] = @ + 1] ELSE ends
    /\ Goto(t, "end_release")
    /\ UNCHANGED <<now, voice_lock, is_speaking, is_active, aVars, ret, result>>
    /\ UNCHANGED <<last_event, intr, early, owner, heard, last_run>>
    /\ UNCHANGED wVars
    /\ UNCHANGED <<xVars, rVars, eVars, oVars, iVars>>

\* end_pipeline, the block under self._lock
end_clear(t) ==
    /\ pc[t] = "end_clear"
    /\ clear_flags
    /\ ends' = IF t \in Runners THEN [ends EXCEPT ![t] = @ + 1] ELSE ends
    /\ Goto(t, "end_release")
    /\ UNCHANGED <<now, voice_lock, is_active, aVars, ret, result>>
    /\ UNCHANGED <<last_event, intr, early, owner, heard, last_run>>
    /\ stale_end' = IF NewerRunActive(t) THEN stale_end \cup {t} ELSE stale_end
    /\ UNCHANGED <<held_since, stale>>
    /\ UNCHANGED <<xVars, rVars, eVars, oVars, iVars>>

\* end_pipeline without the release of the voice lock
end_release_kept(t) ==
    /\ pc[t] = "end_release"
    /\ Return(t)
    /\ UNCHANGED <<now, sVars, aVars, hVars, result>>
    /\ stale_end' = stale_end \ {t}
    /\ UNCHANGED <<held_since, stale>>
    /\ UNCHANGED <<xVars, rVars, eVars, oVars, iVars>>

\* end_pipeline, self._voice_lock.release() (a RuntimeError is swallowed)
end_release(t) ==
    /\ pc[t] = "end_release"
    /\ voice_lock' = FALSE
    /\ Return(t)
    /\ UNCHANGED <<now, pipeline_start, flags, is_active, aVars, hVars, result>>
    /\ held_since' = 0
    /\ stale_end' = stale_end \ {t}
    /\ UNCHANGED stale
    /\ UNCHANGED <<xVars, rVars, eVars, oVars, iVars>>

end_pipeline(t) == end_clear(t) \/ end_release(t)

\* ------------------------------------------- direct users of the state
\* a caller that pairs try_start_pipeline with end_pipeline, as
\* tests/test_state.py and the orchestrator's finally blocks do
\* the slot has been held for longer than the watchdog timeout by a holder
\* that is not calling end_pipeline
HeldTooLong == /\ voice_lock
               /\ now - held_since > PIPELINE_TIMEOUT
               /\ \A c \in Callers : pc[c] \notin {"end_clear", "end_release"}

caller_start(t) ==
    /\ pc[t] = "idle"
    /\ Call(t, "ts_check", "c_started")
    /\ UNCHANGED <<now, sVars, aVars, hVars, result>>
    /\ stale' = [stale EXCEPT ![t] = HeldTooLong]
    /\ UNCHANGED <<held_since, stale_end, xVars, rVars, eVars, oVars, iVars>>

caller_started(t) ==
    /\ pc[t] = "c_started"
    /\ Goto(t, IF result[t] THEN "hold" ELSE "idle")
    /\ result' = [result EXCEPT ![t] = FALSE]
    /\ UNCHANGED <<now, sVars, aVars, hVars, ret>>
    /\ stale' = [stale EXCEPT ![t] = FALSE]
    /\ UNCHANGED <<held_since, stale_end, xVars, rVars, eVars, oVars, iVars>>

caller_end(t) ==
    /\ pc[t] = "hold"
    /\ Call(t, "end_clear", "idle")
    /\ stale' = [c \in Callers |-> FALSE]
    /\ UNCHANGED <<now, sVars, aVars, hVars, result, held_since, stale_end, xVars, rVars, eVars, oVars, iVars>>

\* the holder enters a phase: self.state.set_processing(True)
caller_work(t) ==
    /\ pc[t] = "hold"
    /\ is_processing' = TRUE
    /\ UNCHANGED <<now, voice_lock, pipeline_start, is_listening, is_speaking, is_active>>
    /\ stale' = [c \in Callers |-> FALSE]
    /\ UNCHANGED <<aVars, tVars, hVars, held_since, stale_end, xVars, rVars, eVars, oVars, iVars>>

\* ---------------------------------------------------------------- Assistant
InRun(t) == \/ pc[t] \in RunPcs
            \/ pc[t] \in StartedPcs /\ result[t]

\* the run has cleared the cancellation signal and has not reached its finally
InFlight(t) == pc[t] \in RunPcs \ {"run_clear"}

\* self._emit_event(kind, ...) by thread t
Emit(t, kind) == last_event' = [last_event EXCEPT ![t] = kind]

FinallyNoEnd(t) == /\ pc' = [pc EXCEPT ![t] = "run_ready"]
                   /\ ret' = ret

\* the finally block of handle_voice / _process_continuous_speech
Finally(t) == Call(t, "end_clear", "run_ready")

\* a cancellation checkpoint is passed / a stage side effect happens
Passed(t) == IF intr[t] = "set" THEN "passed" ELSE intr[t]
Effect(i) == IF i = "passed" THEN "late" ELSE i

\* Assistant.interrupt: self._cancel.set()
int_set(t) ==
    /\ pc[t] = "int_set"
    /\ cancel' = TRUE
    /\ intr' = [r \in Runners |->
                 IF InFlight(r) /\ intr[r] = "no" THEN "set" ELSE intr[r]]
    /\ early' = [r \in Runners |->
                  early[r] \/ (InFlight(r) /\ pc[r] \in PreSttPcs)]
    /\ Goto(t, "int_stop")
    /\ halting' = [halting EXCEPT ![t] = {r \in Runners : InFlight(r)}]
    /\ UNCHANGED <<now, sVars, pending_audio, audio, playing, detected, toggles>>
    /\ UNCHANGED <<ret, result, last_event, ends, owner, heard, last_run>>
    /\ UNCHANGED <<wVars, xVars, rVars, eVars, oVars, halted>>

\* Assistant.interrupt: self.player.stop()
int_stop(t) ==
    /\ pc[t] = "int_stop"
    /\ playing' = NoThread
    /\ Return(t)
    /\ halted' = halted \cup halting[t]
    /\ halting' = [halting EXCEPT ![t] = {}]
    /\ UNCHANGED <<now, sVars, cancel, pending_audio, audio, detected, toggles>>
    /\ UNCHANGED <<result, hVars>>
    /\ UNCHANGED <<wVars, xVars, rVars, eVars, oVars>>

interrupt(t) == int_set(t) \/ int_stop(t)

\* the push-to-talk hotkey / mic button starts a handle_voice thread
on_push_to_talk(t) ==
    /\ pc[t] = "idle"
    /\ is_active
    /\ Call(t, "ts_check", "hv_started")
    /\ UNCHANGED <<now, sVars, aVars, hVars, result>>
    /\ UNCHANGED wVars
    /\ UNCHANGED <<xVars, rVars, eVars, oVars, iVars>>

\* handle_voice: `if not self.state.try_start_pipeline(): self.interrupt()`
hv_started(t) ==
    /\ pc[t] = "hv_started"
    /\ IF result[t]
       THEN Goto(t, "run_clear") /\ UNCHANGED ret
       ELSE Call(t, "int_set", "hv_sleep")
    /\ result' = [result EXCEPT ![t] = FALSE]
    /\ UNCHANGED <<now, sVars, aVars, hVars>>
    /\ UNCHANGED wVars
    /\ UNCHANGED <<xVars, rVars, eVars, oVars, iVars>>

\* handle_voice: time.sleep(0.15); if self.state.is_busy:
hv_sleep(t) ==
    /\ pc[t] = "hv_sleep"
    /\ IF is_busy
       THEN Goto(t, "hv_force") /\ UNCHANGED ret
       ELSE Call(t, "ts_check", "hv_retry")
    /\ UNCHANGED <<now, sVars, aVars, hVars, result>>
    /\ UNCHANGED wVars
    /\ UNCHANGED <<xVars, rVars, eVars, oVars, iVars>>

\* handle_voice: self.state.force_reset()
hv_force(t) ==
    /\ pc[t] = "hv_force"
    /\ clear_flags
    /\ Goto(t, "hv_release")
    /\ UNCHANGED <<now, voice_lock, is_active, aVars, hVars, ret, result>>
    /\ UNCHANGED wVars
    /\ UNCHANGED <<xVars, rVars, eVars, oVars, iVars>>

\* handle_voice: self.state._voice_lock.release(), then the second try_start_pipeline
hv_release(t) ==
    /\ pc[t] = "hv_release"
    /\ voice_lock' = FALSE
    /\ Call(t, "ts_check", "hv_retry")
    /\ UNCHANGED <<now, pipeline_start, flags, is_active, aVars, hVars, result>>
    /\ held_since' = 0
    /\ UNCHANGED <<stale, stale_end>>
    /\ UNCHANGED <<xVars, rVars, eVars, oVars, iVars>>

\* handle_voice: `if not self.state.try_start_pipeline(): return`
hv_retry(t) ==
    /\ pc[t] = "hv_retry"
    /\ Goto(t, IF result[t] THEN "run_clear" ELSE "done")
    /\ result' = [result EXCEPT ![t] = FALSE]
    /\ UNCHANGED <<now, sVars, aVars, hVars, ret>>
    /\ UNCHANGED wVars
    /\ UNCHANGED <<xVars, rVars, eVars, oVars, iVars>>

\* a run that starts without clearing the cancellation signal
run_clear_kept(t) ==
    /\ pc[t] = "run_clear"
    /\ last_event' = [last_event EXCEPT ![t] = "none"]
    /\ ends' = [ends EXCEPT ![t] = 0]
    /\ last_run' = IF t \in Cont THEN audio[t] ELSE last_run
    /\ Goto(t, IF t \in PTT THEN "hv_listen" ELSE "run_processing")
    /\ UNCHANGED <<now, sVars, cancel, pending_audio, audio, playing, detected, toggles>>
    /\ UNCHANGED <<ret, result, intr, early, owner, heard>>
    /\ UNCHANGED wVars
    /\ UNCHANGED <<xVars, rVars, eVars, oVars, iVars>>

\* self._cancel.clear() at the start of a run
run_clear(t) ==
    /\ pc[t] = "run_clear"
    /\ cancel' = FALSE
    /\ last_event' = [last_event EXCEPT ![t] = "none"]
    /\ ends' = [ends EXCEPT ![t] = 0]
    /\ last_run' = IF t \in Cont THEN audio[t] ELSE last_run
    /\ Goto(t, IF t \in PTT THEN "hv_listen" ELSE "run_processing")
    /\ UNCHANGED <<now, sVars, pending_audio, audio, playing, detected, toggles>>
    /\ UNCHANGED <<ret, result, intr, early, owner, heard>>
    /\ UNCHANGED wVars
    /\ UNCHANGED <<xVars, rVars, eVars, oVars, iVars>>

\* handle_voice: emit status listening; self.state.set_listening(True)
hv_listen(t) ==
    /\ pc[t] = "hv_listen"
    /\ Emit(t, "listening")
    /\ is_listening' = TRUE
    /\ Goto(t, "hv_record")
    /\ UNCHANGED <<now, voice_lock, pipeline_start, is_processing, is_speaking, is_active>>
    /\ UNCHANGED <<aVars, ret, result, ends, intr, early, owner, heard, last_run>>
    /\ UNCHANGED wVars
    /\ UNCHANGED <<xVars, rVars, eVars, oVars, iVars>>

\* handle_voice: audio = self.recorder.record(); set_listening(False);
\* `if audio is None`, or AudioError caught by `except Exception`
hv_record(t) ==
    /\ pc[t] = "hv_record"
    /\ \E outcome \in {"audio", "none", "raise"} :
         CASE outcome = "audio" ->
                /\ is_listening' = FALSE
                /\ Goto(t, "run_processing")
                /\ UNCHANGED <<last_event, ret>>
           [] outcome = "none" ->
                /\ is_listening' = FALSE
                /\ Emit(t, "ready")
                /\ Finally(t)
           [] outcome = "raise" ->
                /\ Emit(t, "error")
                /\ Finally(t)
                /\ UNCHANGED is_listening
    /\ UNCHANGED <<now, voice_lock, pipeline_start, is_processing, is_speaking, is_active>>
    /\ UNCHANGED <<aVars, result, ends, intr, early, owner, heard, last_run>>
    /\ UNCHANGED wVars
    /\ UNCHANGED <<xVars, rVars, eVars, oVars, iVars>>

\* self.state.set_processing(True); emit status processing
run_processing(t) ==
    /\ pc[t] = "run_processing"
    /\ is_processing' = TRUE
    /\ Emit(t, "processing")
    /\ Goto(t, "p_stt")
    /\ UNCHANGED <<now, voice_lock, pipeline_start, is_listening, is_speaking, is_active>>
    /\ UNCHANGED <<aVars, ret, result, ends, intr, early, owner, heard, last_run>>
    /\ UNCHANGED wVars
    /\ UNCHANGED <<xVars, rVars, eVars, oVars, iVars>>

\* _process: check cancel before STT; self.stt.transcribe; empty text returns,
\* otherwise emit user_text.  transcribe raises STTError when no model is
\* loaded; WhisperEngine turns an exception of the model into empty text
p_stt(t) ==
    /\ pc[t] = "p_stt"
    /\ IF cancel
       THEN Finally(t) /\ UNCHANGED <<intr, last_event>>
       ELSE /\ intr' = [intr EXCEPT ![t] = Effect(Passed(t))]
            /\ \E outcome \in {"text", "empty", "raise"} :
                 CASE outcome = "text" ->
                        /\ Emit(t, "user_text")
                        /\ Goto(t, "p_brain")
                        /\ UNCHANGED ret
                   [] outcome = "empty" ->
                        /\ Finally(t)
                        /\ UNCHANGED last_event
                   [] outcome = "raise" ->
                        /\ Emit(t, "error")
                        /\ Finally(t)
    /\ UNCHANGED <<now, sVars, aVars, result, ends, early, owner, heard, last_run>>
    /\ UNCHANGED wVars
    /\ UNCHANGED <<xVars, rVars, eVars, oVars, iVars>>

\* _process: check cancel before brain, then self.brain.process, which is not
\* inside a try block of _process
p_brain(t) ==
    /\ pc[t] = "p_brain"
    /\ IF cancel
       THEN Finally(t) /\ UNCHANGED <<intr, last_event>>
       ELSE /\ intr' = [intr EXCEPT ![t] = Effect(Passed(t))]
            /\ \E outcome \in {"ok", "raise"} :
                 IF outcome = "ok"
                 THEN Goto(t, "p_action") /\ UNCHANGED <<ret, last_event>>
                 ELSE Emit(t, "error") /\ Finally(t)
    /\ UNCHANGED <<now, sVars, aVars, result, ends, early, owner, heard, last_run>>
    /\ UNCHANGED wVars
    /\ UNCHANGED <<xVars, rVars, eVars, oVars, iVars>>

\* what registry.execute does for the command of the brain response:
\* "none" (no command, or a conversation), "speak" / "silent" (success, with
\* or without a speak text), "failure" (success = False: unknown action,
\* parameter error or a handler exception, all caught in execute), "raise"
ActionOutcomes == {"none", "speak", "silent", "failure", "raise"}

\* _process, step 3: response_text = brain_response.response_text, replaced by
\* the speak text only `if action_result.success`, by the localized error
\* text in `except Exception`
reply(outcome) ==
    CASE outcome = "speak" -> "speak"
      [] outcome = "raise" -> "error"
      [] OTHER -> "brain"

\* _process: check cancel before action, registry.execute, emit response_text
p_action(t) ==
    /\ pc[t] = "p_action"
    /\ IF cancel
       THEN Finally(t) /\ UNCHANGED <<intr, last_event, eVars>>
       ELSE /\ intr' = [intr EXCEPT ![t] = Effect(Passed(t))]
            /\ \E outcome \in ActionOutcomes :
                 /\ response_text' = [response_text EXCEPT ![t] = reply(outcome)]
                 /\ fault' = [fault EXCEPT ![t] =
                                CASE outcome = "failure" -> "failure"
                                  [] outcome = "raise" -> "action"
                                  [] OTHER -> @]
            /\ Emit(t, "response_text")
            /\ Goto(t, "p_tts")
            /\ UNCHANGED ret
    /\ UNCHANGED <<now, sVars, aVars, result, ends, early, owner, heard, last_run>>
    /\ UNCHANGED wVars
    /\ UNCHANGED <<xVars, rVars, oVars, iVars>>

\* _process: check cancel before TTS; _speak_response: set_processing(False)
p_tts(t) ==
    /\ pc[t] = "p_tts"
    /\ IF cancel
       THEN Finally(t) /\ UNCHANGED <<intr, is_processing>>
       ELSE /\ intr' = [intr EXCEPT ![t] = Passed(t)]
            /\ is_processing' = FALSE
            /\ Goto(t, "sp_check")
            /\ UNCHANGED ret
    /\ UNCHANGED <<now, voice_lock, pipeline_start, is_listening, is_speaking, is_active>>
    /\ UNCHANGED <<aVars, result, last_event, ends, early, owner, heard, last_run>>
    /\ UNCHANGED wVars
    /\ response_text' = [response_text EXCEPT ![t] = "none"]
    /\ fault' = [fault EXCEPT ![t] = "none"]
    /\ UNCHANGED <<xVars, rVars, oVars, iVars>>

\* the GUI's mute button: self._assistant.tts_muted = self._muted
set_tts_muted ==
    /\ tts_muted' = ~tts_muted
    /\ UNCHANGED <<now, sVars, aVars, tVars, hVars, wVars, oVars, iVars, eVars>>
    /\ UNCHANGED <<rVars, qVars, gVars, lVars>>

\* _speak_response that does not look at tts_muted
sp_check_unmuted(t) ==
    /\ pc[t] = "sp_check"
    /\ IF cancel
       THEN Finally(t) /\ UNCHANGED <<intr, last_event, is_speaking>>
       ELSE /\ intr' = [intr EXCEPT ![t] = Passed(t)]
            /\ is_speaking' = TRUE
            /\ Emit(t, "speaking")
            /\ Goto(t, "sp_synth")
            /\ UNCHANGED ret
    /\ UNCHANGED <<now, voice_lock, pipeline_start, is_listening, is_processing, is_active>>
    /\ UNCHANGED <<aVars, result, ends, early, owner, heard, last_run>>
    /\ UNCHANGED wVars
    /\ UNCHANGED <<xVars, rVars, eVars, oVars, iVars>>

\* _speak_response: `if self.tts_muted: return`; `if self._cancel.is_set():
\* return`; set_speaking(True); emit status speaking
sp_check(t) ==
    /\ pc[t] = "sp_check"
    /\ IF tts_muted \/ cancel
       THEN Finally(t) /\ UNCHANGED <<intr, last_event, is_speaking>>
       ELSE /\ intr' = [intr EXCEPT ![t] = Passed(t)]
            /\ is_speaking' = TRUE
            /\ Emit(t, "speaking")
            /\ Goto(t, "sp_synth")
            /\ UNCHANGED ret
    /\ UNCHANGED <<now, voice_lock, pipeline_start, is_listening, is_processing, is_active>>
    /\ UNCHANGED <<aVars, result, ends, early, owner, heard, last_run>>
    /\ UNCHANGED wVars
    /\ UNCHANGED <<xVars, rVars, eVars, oVars, iVars>>

\* _speak_response: speech = tts.synthesize(text)
sp_synth(t) ==
    /\ pc[t] = "sp_synth"
    /\ intr' = [intr EXCEPT ![t] = Effect(@)]
    /\ \E outcome \in {"audio", "empty", "raise"} :
         Goto(t, CASE outcome = "audio" -> "sp_play"
                   [] outcome = "empty" -> "sp_finally"
                   [] outcome = "raise" -> "sp_except")
    /\ UNCHANGED <<now, sVars, aVars, ret, result, last_event, ends, early, owner, heard, last_run>>
    /\ UNCHANGED wVars
    /\ UNCHANGED <<xVars, rVars, eVars, oVars, iVars>>

\* _speak_response going on to playback without looking at the cancel signal
sp_play_unchecked(t) ==
    /\ pc[t] = "sp_play"
    /\ intr' = [intr EXCEPT ![t] = Passed(t)]
    /\ Goto(t, "play_wav")
    /\ UNCHANGED <<now, sVars, aVars>>
    /\ UNCHANGED <<ret, result, last_event, ends, early, owner, heard, last_run>>
    /\ UNCHANGED wVars
    /\ UNCHANGED <<xVars, rVars, eVars, oVars, iVars>>

\* _speak_response: `if self._cancel.is_set(): return` after synthesis
sp_play(t) ==
    /\ pc[t] = "sp_play"
    /\ IF cancel
       THEN Goto(t, "sp_finally") /\ UNCHANGED intr
       ELSE /\ intr' = [intr EXCEPT ![t] = Passed(t)]
            /\ Goto(t, "play_wav")
    /\ UNCHANGED <<now, sVars, aVars>>
    /\ UNCHANGED <<ret, result, last_event, ends, early, owner, heard, last_run>>
    /\ UNCHANGED wVars
    /\ UNCHANGED <<xVars, rVars, eVars, oVars, iVars>>

\* AudioPlayer.play_wav / play_bytes: sd.play(...) starts the stream, or
\* reading or starting the audio fails and AudioError is raised
play_wav(t) ==
    /\ pc[t] = "play_wav"
    /\ intr' = [intr EXCEPT ![t] = Effect(@)]
    /\ \E outcome \in {"playing", "raise"} :
         IF outcome = "playing"
         THEN playing' = t /\ Goto(t, "sp_wait")
         ELSE UNCHANGED playing /\ Goto(t, "sp_except")
    /\ UNCHANGED <<now, sVars, cancel, pending_audio, audio, detected, toggles>>
    /\ UNCHANGED <<ret, result, last_event, ends, early, owner, heard, last_run>>
    /\ UNCHANGED wVars
    /\ UNCHANGED <<xVars, rVars, eVars, oVars, iVars>>

\* AudioPlayer._wait_with_timeout returns: the stream ended, was stopped or timed out
sp_wait(t) ==
    /\ pc[t] = "sp_wait"
    /\ playing' = IF playing = t THEN NoThread ELSE playing
    /\ Goto(t, "sp_finally")
    /\ UNCHANGED <<now, sVars, cancel, pending_audio, audio, detected, toggles>>
    /\ UNCHANGED <<ret, result, hVars>>
    /\ UNCHANGED wVars
    /\ UNCHANGED <<xVars, rVars, eVars, oVars, iVars>>

\* _speak_response whose handler reports the exception as an error event
sp_except_reported(t) ==
    /\ pc[t] = "sp_except"
    /\ Emit(t, "error")
    /\ Goto(t, "sp_finally")
    /\ UNCHANGED <<now, sVars, aVars>>
    /\ UNCHANGED <<ret, result, ends, intr, early, owner, heard, last_run>>
    /\ UNCHANGED wVars
    /\ UNCHANGED <<xVars, rVars, eVars, oVars, iVars>>

\* _speak_response: `except Exception as e: logger.error(...)`
sp_except(t) ==
    /\ pc[t] = "sp_except"
    /\ Goto(t, "sp_finally")
    /\ UNCHANGED <<now, sVars, aVars>>
    /\ UNCHANGED <<ret, result, hVars>>
    /\ UNCHANGED wVars
    /\ UNCHANGED <<xVars, rVars, eVars, oVars, iVars>>

\* _speak_response: finally: self.state.set_speaking(False)
sp_finally(t) ==
    /\ pc[t] = "sp_finally"
    /\ is_speaking' = FALSE
    /\ Finally(t)
    /\ UNCHANGED <<now, voice_lock, pipeline_start, is_listening, is_processing, is_active>>
    /\ UNCHANGED <<aVars, result, hVars>>
    /\ UNCHANGED wVars
    /\ UNCHANGED <<xVars, rVars, eVars, oVars, iVars>>

\* after end_pipeline in the finally block: emit status ready
run_ready(t) ==
    /\ pc[t] = "run_ready"
    /\ Emit(t, "ready")
    /\ intr' = [intr EXCEPT ![t] = "no"]
    /\ early' = [early EXCEPT ![t] = FALSE]
    /\ Goto(t, IF t \in PTT THEN "done" ELSE "pcs_pending")
    /\ halting' = [i \in DOMAIN halting |-> halting[i] \ {t}]
    /\ halted' = halted \ {t}
    /\ UNCHANGED <<now, sVars, aVars, ret, result, ends, owner, heard, last_run>>
    /\ UNCHANGED <<wVars, xVars, rVars, eVars, oVars>>

process(t) ==
    \/ p_stt(t) \/ p_brain(t) \/ p_action(t) \/ p_tts(t)

speak_response(t) ==
    \/ sp_check(t) \/ sp_synth(t) \/ sp_play(t) \/ play_wav(t) \/ sp_wait(t)
    \/ sp_except(t) \/ sp_finally(t)

handle_voice(t) ==
    \/ hv_started(t) \/ hv_sleep(t) \/ hv_force(t) \/ hv_release(t) \/ hv_retry(t)
    \/ hv_listen(t) \/ hv_record(t)

\* _process_continuous_speech: `if not self.state.try_start_pipeline():` queue it
pcs_started(t) ==
    /\ pc[t] = "pcs_started"
    /\ IF result[t]
       THEN Goto(t, "run_clear") /\ UNCHANGED <<pending_audio, audio>>
       ELSE /\ Goto(t, "done")
            /\ pending_audio' = audio[t]
            /\ audio' = [audio EXCEPT ![t] = None]
    /\ result' = [result EXCEPT ![t] = FALSE]
    /\ UNCHANGED <<now, sVars, cancel, playing, detected, toggles>>
    /\ UNCHANGED <<ret, hVars>>
    /\ UNCHANGED wVars
    /\ UNCHANGED <<xVars, rVars, eVars, oVars, iVars>>

\* _process_continuous_speech: take the pending audio and process it recursively
pcs_pending(t) ==
    /\ pc[t] = "pcs_pending"
    /\ pending_audio' = None
    /\ audio' = [audio EXCEPT ![t] = pending_audio]
    /\ IF pending_audio # None
       THEN Call(t, "ts_check", "pcs_started")
       ELSE Goto(t, "done") /\ UNCHANGED ret
    /\ UNCHANGED <<now, sVars, cancel, playing, detected, toggles>>
    /\ UNCHANGED <<result, hVars>>
    /\ UNCHANGED wVars
    /\ UNCHANGED <<xVars, rVars, eVars, oVars, iVars>>

process_continuous_speech(t) == pcs_started(t) \/ pcs_pending(t)

\* the continuous listener hands a detected utterance to on_speech_detected
speech_detected ==
    /\ pc[Listener] = "idle"
    /\ detected < MaxUtter
    /\ detected' = detected + 1
    /\ Goto(Listener, "l_check")
    /\ UNCHANGED <<now, sVars, cancel, pending_audio, audio, playing, toggles>>
    /\ UNCHANGED <<ret, result, hVars>>
    /\ UNCHANGED wVars
    /\ UNCHANGED <<xVars, rVars, eVars, oVars, iVars>>

\* on_speech_detected: is_active, is_busy; interrupt or start a thread
l_check ==
    /\ pc[Listener] = "l_check"
    /\ IF ~is_active
       THEN Goto(Listener, "idle") /\ UNCHANGED <<ret, audio, heard>>
       ELSE /\ heard' = detected
            /\ IF is_busy
               THEN Call(Listener, "int_set", "l_pending") /\ UNCHANGED audio
               ELSE /\ pc' = [pc EXCEPT ![Listener] = "idle",
                                        ![<<"cont", detected>>] = "ts_check"]
                    /\ ret' = [ret EXCEPT ![<<"cont", detected>>] = "pcs_started"]
                    /\ audio' = [audio EXCEPT ![<<"cont", detected>>] = detected]
    /\ UNCHANGED <<now, sVars, cancel, pending_audio, playing, detected, toggles>>
    /\ UNCHANGED <<result, last_event, ends, intr, early, owner, last_run>>
    /\ UNCHANGED wVars
    /\ UNCHANGED <<xVars, rVars, eVars, oVars, iVars>>

\* on_speech_detected: with self._pending_lock: self._pending_audio = audio_data
l_pending ==
    /\ pc[Listener] = "l_pending"
    /\ pending_audio' = detected
    /\ Goto(Listener, "idle")
    /\ UNCHANGED <<now, sVars, cancel, audio, playing, detected, toggles>>
    /\ UNCHANGED <<ret, result, hVars>>
    /\ UNCHANGED wVars
    /\ UNCHANGED <<xVars, rVars, eVars, oVars, iVars>>

on_speech_detected == l_check \/ l_pending

\* _toggle_active: assistant.state.toggle_active()
toggle_active ==
    /\ pc[Main] = "idle"
    /\ toggles < MaxToggles
    /\ toggles' = toggles + 1
    /\ is_active' = ~is_active
    /\ Goto(Main, IF ~is_active THEN "m_reset" ELSE "idle")
    /\ UNCHANGED <<now, voice_lock, pipeline_start, flags>>
    /\ UNCHANGED <<cancel, pending_audio, audio, playing, detected, ret, result, hVars>>
    /\ UNCHANGED wVars
    /\ UNCHANGED <<xVars, rVars, eVars, oVars, iVars>>

\* _toggle_active: `if new_state: assistant.state.force_reset()`
force_reset ==
    /\ pc[Main] = "m_reset"
    /\ clear_flags
    /\ Goto(Main, "idle")
    /\ UNCHANGED <<now, voice_lock, is_active, aVars, hVars, ret, result>>
    /\ UNCHANGED wVars
    /\ UNCHANGED <<xVars, rVars, eVars, oVars, iVars>>

\* time passes between calls: a call on the state object takes far less than
\* one clock step
Tick ==
    /\ now + TickStep <= StartTime + MaxTicks * TickStep
    /\ \A t \in Callers : pc[t] \in {"idle", "hold"}
    /\ now' = now + TickStep
    /\ UNCHANGED <<sVars, aVars, tVars, hVars>>
    /\ UNCHANGED wVars
    /\ UNCHANGED <<xVars, rVars, eVars, oVars, iVars>>

\* ------------------------------------------- one client of the state object
\* a single thread that calls the methods of AssistantState one after another
\* in any order, as tests/test_state.py does
Client == <<"caller", 1>>
Languages == {"en", "uk"}

\* the fields of the state object as a call finds them
Snapshot == [voice_lock |-> voice_lock, stale |-> HeldTooLong,
             language |-> language, is_active |-> is_active,
             is_running |-> is_running,
             flags |-> <<is_listening, is_processing, is_speaking>>]

Called(op, value, pre) ==
    LET again == calls # <<>> /\ calls[Len(calls)].op = op
        all == Append(calls, [op |-> op, value |-> value, again |-> again,
                              held |-> pre.voice_lock, stale |-> pre.stale])
    IN  IF Len(all) > 2 THEN Tail(all) ELSE all

\* the client calls try_start_pipeline()
call_try_start(t) ==
    /\ pc[t] = "idle"
    /\ Call(t, "ts_check", "try_start_done")
    /\ before' = Snapshot
    /\ UNCHANGED <<now, sVars, aVars, hVars, wVars, xVars, rVars, eVars, iVars, result>>
    /\ UNCHANGED <<language, is_running, calls>>

try_start_done(t) ==
    /\ pc[t] = "try_start_done"
    /\ calls' = Called("try_start_pipeline", result[t], before)
    /\ result' = [result EXCEPT ![t] = FALSE]
    /\ Goto(t, "idle")
    /\ UNCHANGED <<now, sVars, aVars, hVars, wVars, xVars, rVars, eVars, iVars, ret>>
    /\ UNCHANGED <<language, is_running, before>>

\* the client calls end_pipeline(), whether it holds the slot or not
call_end(t) ==
    /\ pc[t] = "idle"
    /\ Call(t, "end_clear", "end_done")
    /\ before' = Snapshot
    /\ UNCHANGED <<now, sVars, aVars, hVars, wVars, xVars, rVars, eVars, iVars, result>>
    /\ UNCHANGED <<language, is_running, calls>>

end_done(t) ==
    /\ pc[t] = "end_done"
    /\ calls' = Called("end_pipeline", TRUE, before)
    /\ Goto(t, "idle")
    /\ UNCHANGED <<now, sVars, aVars, hVars, wVars, xVars, rVars, eVars, iVars, ret, result>>
    /\ UNCHANGED <<language, is_running, before>>

\* a call that is one block under self._lock
Atomic(t, op) ==
    /\ pc[t] = "idle"
    /\ before' = Snapshot
    /\ calls' = Called(op, TRUE, Snapshot)
    /\ UNCHANGED <<now, aVars, tVars, hVars, wVars, xVars, rVars, eVars, iVars>>

\* force_reset() keeps the voice lock
call_force_reset_releasing(t) ==
    /\ Atomic(t, "force_reset")
    /\ clear_flags
    /\ voice_lock' = FALSE
    /\ UNCHANGED <<is_active, language, is_running>>

\* the client calls force_reset()
call_force_reset(t) ==
    /\ Atomic(t, "force_reset")
    /\ clear_flags
    /\ UNCHANGED <<voice_lock, is_active, language, is_running>>

set_listening(t, value) ==
    /\ Atomic(t, "set_listening")
    /\ is_listening' = value
    /\ UNCHANGED <<voice_lock, pipeline_start, is_processing, is_speaking>>
    /\ UNCHANGED <<is_active, language, is_running>>

set_processing(t, value) ==
    /\ Atomic(t, "set_processing")
    /\ is_processing' = value
    /\ UNCHANGED <<voice_lock, pipeline_start, is_listening, is_speaking>>
    /\ UNCHANGED <<is_active, language, is_running>>

set_speaking(t, value) ==
    /\ Atomic(t, "set_speaking")
    /\ is_speaking' = value
    /\ UNCHANGED <<voice_lock, pipeline_start, is_listening, is_processing>>
    /\ UNCHANGED <<is_active, language, is_running>>

toggle_language(t) ==
    /\ Atomic(t, "toggle_language")
    /\ language' = IF language = "en" THEN "uk" ELSE "en"
    /\ UNCHANGED <<sVars, is_running>>

\* set_language keeps the language when lang is neither "en" nor "uk"
set_language(t, lang) ==
    /\ Atomic(t, "set_language")
    /\ language' = IF lang \in Languages THEN lang ELSE language
    /\ UNCHANGED <<sVars, is_running>>

call_toggle_active(t) ==
    /\ Atomic(t, "toggle_active")
    /\ is_active' = ~is_active
    /\ UNCHANGED <<voice_lock, pipeline_start, flags, language, is_running>>

shutdown(t) ==
    /\ Atomic(t, "shutdown")
    /\ clear_flags
    /\ is_running' = FALSE
    /\ is_active' = FALSE
    /\ UNCHANGED <<voice_lock, language>>

\* ------------------------------------------------------------ AudioRecorder
pVars == <<now, sVars, aVars, tVars, hVars, wVars, oVars, iVars, eVars>>

Min(a, b) == IF a < b THEN a ELSE b
Max(a, b) == IF a > b THEN a ELSE b

\* int(self.silence_duration * chunks_per_second)
silence_threshold_chunks == (silence_duration * chunks_per_second) \div 10
\* int(MIN_SPEECH_DURATION * chunks_per_second)
min_speech_chunks == (MIN_SPEECH_DURATION * chunks_per_second) \div 10
\* int(self.max_record_seconds * chunks_per_second)
max_chunks == max_record_seconds * chunks_per_second
\* max(1, int(PRE_BUFFER_DURATION * chunks_per_second))
pre_buffer_size == Max(1, (PRE_BUFFER_DURATION * chunks_per_second) \div 10)

\* the locals of record() / _wait_for_speech at loop entry
no_out == <<"none", 0, 0, 0, "none">>

fresh_locals == /\ chunks' = 0
                /\ silence_count' = 0
                /\ speech_count' = 0
                /\ recording' = FALSE
                /\ pre_buffer' = <<>>
                /\ head' = <<>>
                /\ recent' = <<>>
                /\ since_clear' = 0

\* RMS values of the frames the microphone delivers
FrameRms == {0, 130, 400}

\* calibrate(): the speech threshold without the floor
multiplied(rms) == rms * SPEECH_MULTIPLIER

\* calibrate(): max(MIN_SPEECH_THRESHOLD, self._ambient_rms * SPEECH_MULTIPLIER)
floored(rms) == Max(MIN_SPEECH_THRESHOLD, rms * SPEECH_MULTIPLIER)

\* calibrate() that leaves silence_threshold as configured
calibrate_keeping_silence ==
    /\ calibrations' = Min(calibrations + 1, MaxCalibrations)
    /\ IF device_ok
       THEN /\ speech_threshold' = floored(ambient)
            /\ calibrated' = TRUE
            /\ UNCHANGED silence_threshold
       ELSE /\ speech_threshold' = silence_threshold
            /\ UNCHANGED <<calibrated, silence_threshold>>

\* calibrate(): sd.rec of the ambient noise; on success the speech threshold
\* is derived from its RMS and a higher silence_threshold is lowered to it;
\* `except Exception`: the speech threshold falls back to silence_threshold
calibrate ==
    /\ calibrations' = Min(calibrations + 1, MaxCalibrations)
    /\ IF device_ok
       THEN /\ speech_threshold' = floored(ambient)
            /\ calibrated' = TRUE
            /\ silence_threshold' = IF silence_threshold > floored(ambient)
                                    THEN floored(ambient) ELSE silence_threshold
       ELSE /\ speech_threshold' = silence_threshold
            /\ UNCHANGED <<calibrated, silence_threshold>>

\* `if not self._calibrated: self.calibrate()`
auto_calibrate ==
    IF ~calibrated
    THEN calibrate
    ELSE UNCHANGED <<calibrated, speech_threshold, silence_threshold, calibrations>>

\* record(): entry, up to the first test of the while loop
record_start ==
    /\ listening = "idle"
    /\ auto_calibrate
    /\ failed' = "none"
    /\ listening' = "record"
    /\ fresh_locals
    /\ last_out' = no_out
    /\ UNCHANGED <<pVars, xVars, cVars, device_ok, cooling>>

\* record(): sd.PortAudioError inside the stream block: raise AudioError
record_error ==
    /\ listening = "record"
    /\ ~device_ok
    /\ failed' = "record"
    /\ last_out' = <<"error", speech_count, chunks, 0, "record">>
    /\ listening' = "idle"
    /\ fresh_locals
    /\ UNCHANGED <<pVars, xVars, cVars, cooling>>
    /\ UNCHANGED <<device_ok, calibrated, speech_threshold, silence_threshold,
                   calibrations>>

\* record(): one pass of the loop on a frame; loud: rms >= self.silence_threshold
record_chunk ==
    /\ listening = "record"
    /\ device_ok
    /\ \E rms \in FrameRms :
         LET loud == rms >= silence_threshold
             silent == IF loud THEN 0 ELSE silence_count + 1
             has_speech == recording \/ loud
         IN /\ chunks' = chunks + 1
            /\ silence_count' = silent
            /\ recording' = has_speech
            /\ speech_count' = IF loud THEN speech_count + 1 ELSE speech_count
            /\ listening' = IF \/ has_speech /\ silent >= silence_threshold_chunks
                               \/ chunks + 1 >= max_chunks
                            THEN "record_ret" ELSE "record"
    /\ UNCHANGED <<pVars, xVars, cVars, kVars, pre_buffer, head, recent, since_clear, cooling, last_out>>

\* record() that returns the audio whenever a frame was captured
record_return_any ==
    /\ listening = "record_ret"
    /\ last_out' = <<IF chunks = 0 THEN "no_speech" ELSE "audio",
                     speech_count, chunks, 0, "record">>
    /\ listening' = "idle"
    /\ fresh_locals
    /\ UNCHANGED <<pVars, xVars, cVars, kVars, cooling>>

\* record(): `if not chunks or not has_speech: return None`, else the audio
record_return ==
    /\ listening = "record_ret"
    /\ last_out' = <<IF chunks = 0 \/ ~recording THEN "no_speech" ELSE "audio",
                     speech_count, chunks, 0, "record">>
    /\ listening' = "idle"
    /\ fresh_locals
    /\ UNCHANGED <<pVars, xVars, cVars, kVars, cooling>>

record == record_start \/ record_chunk \/ record_return

\* start_continuous: the listener thread enters _continuous_loop
start_continuous ==
    /\ listening = "idle"
    /\ auto_calibrate
    /\ failed' = "none"
    /\ listening' = "continuous"
    /\ fresh_locals
    /\ UNCHANGED <<pVars, xVars, cVars, device_ok, cooling, last_out>>

\* stop_continuous: self._continuous = False, the loops exit
stop_continuous ==
    /\ listening \in {"continuous", "exited"}
    /\ listening' = "idle"
    /\ fresh_locals
    /\ UNCHANGED <<pVars, xVars, cVars, kVars, cooling, last_out>>

\* _continuous_loop: `except sd.PortAudioError as e: logger.error(...)`; the
\* listener thread exits, self._continuous stays True
continuous_error ==
    /\ listening = "continuous"
    /\ ~device_ok
    /\ failed' = "continuous"
    /\ listening' = "exited"
    /\ fresh_locals
    /\ UNCHANGED <<pVars, xVars, cVars, cooling, last_out>>
    /\ UNCHANGED <<device_ok, calibrated, speech_threshold, silence_threshold,
                   calibrations>>

\* the capture device is unplugged / plugged in again
device_lost ==
    /\ device_ok
    /\ device_ok' = FALSE
    /\ UNCHANGED <<pVars, xVars, cVars, listening, chunks, silence_count, speech_count,
                   recording, pre_buffer, head, recent, since_clear, cooling, last_out>>
    /\ UNCHANGED <<calibrated, speech_threshold, silence_threshold, calibrations,
                   failed>>

device_back ==
    /\ ~device_ok
    /\ device_ok' = TRUE
    /\ UNCHANGED <<pVars, xVars, cVars, listening, chunks, silence_count, speech_count,
                   recording, pre_buffer, head, recent, since_clear, cooling, last_out>>
    /\ UNCHANGED <<calibrated, speech_threshold, silence_threshold, calibrations,
                   failed>>

\* invocations of self._on_speech_callback in one pass of the loop, were the
\* first stop condition to fall through to the second
callbacks_no_return(silent, speech, n) ==
    (IF silent >= silence_threshold_chunks /\ speech >= min_speech_chunks THEN 1 ELSE 0)
    + (IF n >= max_chunks /\ speech >= min_speech_chunks THEN 1 ELSE 0)

\* invocations of self._on_speech_callback in one pass of the loop: the silence
\* stop condition returns before the max_chunks one is tested
callbacks(silent, speech, n) ==
    IF silent >= silence_threshold_chunks
    THEN (IF speech >= min_speech_chunks THEN 1 ELSE 0)
    ELSE IF n >= max_chunks
    THEN (IF speech >= min_speech_chunks THEN 1 ELSE 0)
    ELSE 0

\* one of the stop conditions holds: _wait_for_speech returns after this pass
stops(silent, n) == silent >= silence_threshold_chunks \/ n >= max_chunks

\* the utterance ends: the callback is invoked iff it has enough speech frames;
\* _wait_for_speech returns and _continuous_loop calls it again
utterance_end(silent, speech, n) ==
    /\ last_out' = <<IF callbacks(silent, speech, n) > 0 THEN "callback" ELSE "ignored",
                     speech, n, callbacks(silent, speech, n),
                     IF silent >= silence_threshold_chunks THEN "silence" ELSE "max">>
    /\ fresh_locals

\* a frame arrives: every frame kept so far is one frame older (ages are
\* counted up to pre_buffer_size, which no frame still in the deque reaches)
aged(q) == [i \in 1..Len(q) |-> Min(q[i] + 1, pre_buffer_size)]

\* append to a list that has no maxlen
list_append(q, x, maxlen) == Append(q, x)

\* collections.deque(maxlen=maxlen).append(x): the oldest entries fall out
deque_append(q, x, maxlen) ==
    LET r == Append(q, x)
    IN IF Len(r) > maxlen THEN SubSeq(r, Len(r) - maxlen + 1, Len(r)) ELSE r

\* a frame dequeued during cooldown that leaves the pre-roll as it is
cooldown_frame_kept ==
    /\ recent' = IF recording THEN recent ELSE aged(recent)
    /\ since_clear' = IF recording THEN since_clear ELSE 0
    /\ UNCHANGED <<pre_buffer, chunks, silence_count, speech_count, recording, head,
                   last_out>>

\* _wait_for_speech: `if time.monotonic() < self._cooldown_until:
\* pre_buffer.clear(); continue`: the frame is dropped
cooldown_frame ==
    /\ pre_buffer' = <<>>
    /\ recent' = IF recording THEN recent ELSE aged(recent)
    /\ since_clear' = IF recording THEN since_clear ELSE 0
    /\ UNCHANGED <<chunks, silence_count, speech_count, recording, head, last_out>>

\* _wait_for_speech: the body of the loop on the frame audio_q.get returned;
\* loud: rms >= speech_threshold
frame_pass ==
    \E rms \in FrameRms :
      LET loud == rms >= speech_threshold IN
      IF cooling
      THEN cooldown_frame
      ELSE IF ~recording
      THEN LET ring == deque_append(aged(pre_buffer), 0, pre_buffer_size)
           IN /\ pre_buffer' = ring
              /\ recent' = deque_append(aged(recent), 0, pre_buffer_size)
              /\ since_clear' = Min(since_clear + 1, pre_buffer_size)
              /\ IF loud
                 THEN /\ recording' = TRUE
                      /\ chunks' = Len(ring)
                      /\ head' = ring
                      /\ speech_count' = 1
                      /\ silence_count' = 0
                      /\ last_out' = no_out
                 ELSE UNCHANGED <<chunks, silence_count, speech_count, recording,
                                  head, last_out>>
      ELSE LET silent == IF loud THEN 0 ELSE silence_count + 1
               speech == IF loud THEN speech_count + 1 ELSE speech_count
           IN IF stops(silent, chunks + 1)
              THEN utterance_end(silent, speech, chunks + 1)
              ELSE /\ chunks' = chunks + 1
                   /\ silence_count' = silent
                   /\ speech_count' = speech
                   /\ UNCHANGED <<recording, pre_buffer, head, recent, since_clear,
                                  last_out>>

\* _wait_for_speech: `while self._continuous:` holds, a frame arrives within
\* the 0.5 s of audio_q.get and is processed
wait_for_speech ==
    /\ listening = "continuous"
    /\ device_ok
    /\ frame_pass
    /\ UNCHANGED <<pVars, xVars, cVars, kVars, listening, cooling>>

\* stop_continuous / stop: self._continuous = False, while the listener
\* thread is inside its loop
clear_continuous ==
    /\ listening = "continuous"
    /\ listening' = "stopping"
    /\ UNCHANGED <<pVars, xVars, cVars, kVars, chunks, silence_count, speech_count,
                   recording, pre_buffer, head, recent, since_clear, cooling, last_out>>

\* the flag was cleared while the listener thread was waiting in
\* audio_q.get(timeout=0.5): the frame that arrives is still processed
last_frame ==
    /\ listening = "stopping"
    /\ device_ok
    /\ frame_pass
    /\ listening' = "exiting"
    /\ UNCHANGED <<pVars, xVars, cVars, kVars, cooling>>

\* `while self._continuous:` fails in _wait_for_speech and in
\* _continuous_loop: the listener thread ends, stop_continuous joins it
loop_exit ==
    /\ listening \in {"stopping", "exiting"}
    /\ listening' = "idle"
    /\ fresh_locals
    /\ UNCHANGED <<pVars, xVars, cVars, kVars, cooling, last_out>>

\* set_cooldown: self._cooldown_until = time.monotonic() + seconds
set_cooldown ==
    /\ cooling' = TRUE
    /\ UNCHANGED <<pVars, xVars, cVars, kVars, listening, chunks, silence_count,
                   speech_count, recording, pre_buffer, head, recent, since_clear,
                   last_out>>

\* time.monotonic() reaches self._cooldown_until
cooldown_over ==
    /\ cooling
    /\ cooling' = FALSE
    /\ UNCHANGED <<pVars, xVars, cVars, kVars, listening, chunks, silence_count,
                   speech_count, recording, pre_buffer, head, recent, since_clear,
                   last_out>>

\* ------------------------------------------------------------ event system
\* a put that places the event at the head of the queue
put_front(q, item) == <<item>> \o q

\* queue.Queue.put on the unbounded self._event_queue: never blocks
put(q, item) == Append(q, item)

\* add_event_callback: self._event_callbacks.append(callback)
add_event_callback ==
    /\ Len(event_callbacks) < MaxCallbacks
    /\ event_callbacks' = Append(event_callbacks, Len(event_callbacks) + 1)
    /\ UNCHANGED <<event_queue, epc, cb_index, emits, emitted, dpc, events, drained>>
    /\ UNCHANGED <<pVars, rVars, gVars, mVars, lVars, called>>

\* _emit_event: event = {"type": ..., "data": ..., "time": time.time()}
emit_start(p) ==
    /\ epc[p] = "idle"
    /\ emits[p] < MaxEmits
    /\ epc' = [epc EXCEPT ![p] = "put"]
    /\ UNCHANGED <<event_queue, event_callbacks, cb_index, emits, emitted, dpc, events,
                   drained>>
    /\ UNCHANGED <<pVars, rVars, gVars, mVars, lVars, called>>

\* _emit_event: self._event_queue.put(event)
emit_put(p) ==
    /\ epc[p] = "put"
    /\ LET event == <<p, emits[p] + 1>>
       IN /\ event_queue' = put(event_queue, event)
          /\ emitted' = Append(emitted, event)
    /\ emits' = [emits EXCEPT ![p] = @ + 1]
    /\ cb_index' = [cb_index EXCEPT ![p] = 1]
    /\ called' = [called EXCEPT ![p] = <<>>]
    /\ epc' = [epc EXCEPT ![p] = "callbacks"]
    /\ UNCHANGED <<event_callbacks, dpc, events, drained>>
    /\ UNCHANGED <<pVars, rVars, gVars, mVars, lVars>>

\* _emit_event: `for cb in self._event_callbacks:` the loop ends, or calls
\* cb(event_type, data) in the emitting thread
emit_next(p) ==
    /\ epc[p] = "callbacks"
    /\ IF cb_index[p] > Len(event_callbacks)
       THEN /\ epc' = [epc EXCEPT ![p] = "idle"]
            /\ cb_index' = [cb_index EXCEPT ![p] = 0]
       ELSE /\ epc' = [epc EXCEPT ![p] = "in_callback"]
            /\ UNCHANGED cb_index
    /\ UNCHANGED <<event_queue, event_callbacks, emits, emitted, dpc, events, drained>>
    /\ UNCHANGED <<pVars, rVars, gVars, mVars, lVars, called>>

\* the subscriber's callback raises and the exception leaves _emit_event
callback_return_propagating(p) ==
    /\ epc[p] = "in_callback"
    /\ \E outcome \in {"return", "raise"} :
         /\ called' = [called EXCEPT ![p] = Append(@, <<event_callbacks[cb_index[p]], outcome>>)]
         /\ IF outcome = "raise"
            THEN /\ epc' = [epc EXCEPT ![p] = "idle"]
                 /\ cb_index' = [cb_index EXCEPT ![p] = 0]
            ELSE /\ epc' = [epc EXCEPT ![p] = "callbacks"]
                 /\ cb_index' = [cb_index EXCEPT ![p] = @ + 1]
    /\ UNCHANGED <<event_queue, event_callbacks, emits, emitted, dpc, events, drained>>
    /\ UNCHANGED <<pVars, rVars, gVars, mVars, lVars>>

\* the subscriber's callback returns, or raises and `except Exception` logs
\* it: either way the loop goes on to the next callback
callback_return(p) ==
    /\ epc[p] = "in_callback"
    /\ \E outcome \in {"return", "raise"} :
         called' = [called EXCEPT ![p] = Append(@, <<event_callbacks[cb_index[p]], outcome>>)]
    /\ cb_index' = [cb_index EXCEPT ![p] = @ + 1]
    /\ epc' = [epc EXCEPT ![p] = "callbacks"]
    /\ UNCHANGED <<event_queue, event_callbacks, emits, emitted, dpc, events, drained>>
    /\ UNCHANGED <<pVars, rVars, gVars, mVars, lVars>>

emit_event(p) == emit_start(p) \/ emit_put(p) \/ emit_next(p) \/ callback_return(p)

\* drain_events: events = []
drain_start ==
    /\ dpc = "idle"
    /\ dpc' = "draining"
    /\ events' = <<>>
    /\ UNCHANGED <<event_queue, event_callbacks, epc, cb_index, emits, emitted, drained>>
    /\ UNCHANGED <<pVars, rVars, gVars, mVars, lVars, called>>

\* drain_events: events.append(self._event_queue.get_nowait())
drain_get ==
    /\ dpc = "draining"
    /\ event_queue # <<>>
    /\ events' = Append(events, Head(event_queue))
    /\ event_queue' = Tail(event_queue)
    /\ UNCHANGED <<event_callbacks, epc, cb_index, emits, emitted, dpc, drained>>
    /\ UNCHANGED <<pVars, rVars, gVars, mVars, lVars, called>>

\* drain_events: get_nowait raises queue.Empty: break; return events
drain_return ==
    /\ dpc = "draining"
    /\ event_queue = <<>>
    /\ dpc' = "idle"
    /\ drained' = drained \o events
    /\ UNCHANGED <<event_queue, event_callbacks, epc, cb_index, emits, emitted, events>>
    /\ UNCHANGED <<pVars, rVars, gVars, mVars, lVars, called>>

drain_events == drain_start \/ drain_get \/ drain_return

\* --------------------------------------------------------- action registry
ActionNames == {"open_app", "launch", "get_time"}
\* the names the registrations explored use as aliases
AliasNames == {"launch"}
ParamNames == {"app_name"}

\* a registered function: the keyword parameters it takes, and what its body
\* does when called with them: returns an ActionResult with success True
\* ("ok") or False ("fail"), raises a TypeError, raises another Exception
Handlers == [sig : SUBSET ParamNames, does : {"ok", "fail", "TypeError", "Exception"}]

\* self._actions.get(name) is None
NoMeta == [sig |-> {}, does |-> "none"]

\* the ActionResult(success=False, ...) built by execute
Failure(message) == [raised |-> "none", success |-> FALSE, message |-> message]

\* meta.handler(**params): Python raises TypeError for a missing or an
\* unexpected keyword argument, otherwise the body runs
call(handler, params) ==
    IF params # handler.sig THEN "TypeError" ELSE handler.does

\* execute whose try block has no `except Exception`
execute_uncaught(name, params) ==
    LET meta == actions[name]
    IN IF meta = NoMeta
       THEN Failure("unknown")
       ELSE LET r == call(meta, params)
            IN CASE r = "TypeError" -> Failure("parameters")
                 [] r = "Exception" ->
                      [raised |-> "Exception", success |-> FALSE, message |-> "none"]
                 [] OTHER ->
                      [raised |-> "none", success |-> r = "ok", message |-> "handler"]

\* ActionRegistry.execute
execute(name, params) ==
    LET meta == actions[name]
    IN IF meta = NoMeta
       THEN Failure("unknown")
       ELSE LET r == call(meta, params)
            IN CASE r = "TypeError" -> Failure("parameters")
                 [] r = "Exception" -> Failure("failed")
                 [] OTHER ->
                      [raised |-> "none", success |-> r = "ok", message |-> "handler"]

\* registry.register(name, ..., aliases)(func)
register(name, aliases, func) ==
    /\ actions' = [n \in ActionNames |->
                     IF n = name \/ n \in aliases THEN func ELSE actions[n]]
    /\ UNCHANGED executed
    /\ UNCHANGED <<pVars, rVars, qVars, mVars, lVars>>

\* a caller runs registry.execute(name, params)
call_execute(name, params) ==
    /\ executed' = [name |-> name, params |-> params, meta |-> actions[name],
                    result |-> execute(name, params)]
    /\ UNCHANGED actions
    /\ UNCHANGED <<pVars, rVars, qVars, mVars, lVars>>

\* sd.play(...) in play_bytes / play_wav / play_file, then the call of
\* _wait_with_timeout: start = time.monotonic()
play ==
    /\ wpc = "idle"
    /\ stream' = "active"
    /\ elapsed' = 0
    /\ wait_result' = "none"
    /\ wpc' = "check_stopped"
    /\ UNCHANGED <<stopped, kpc>>
    /\ UNCHANGED <<pVars, rVars, qVars, gVars, mVars>>

\* the wait returns: back in play_bytes / play_wav
wait_return(why, force) ==
    /\ wpc' = "idle"
    /\ wait_result' = why
    /\ stream' = IF force THEN "none" ELSE stream

\* if self._stopped: sd.stop(); return
check_stopped ==
    /\ wpc = "check_stopped"
    /\ IF stopped
       THEN wait_return("stopped", TRUE)
       ELSE wpc' = "check_elapsed" /\ UNCHANGED <<stream, wait_result>>
    /\ UNCHANGED <<stopped, elapsed, kpc>>
    /\ UNCHANGED <<pVars, rVars, qVars, gVars, mVars>>

\* the wait without its timeout test
check_elapsed_forever ==
    /\ wpc = "check_elapsed"
    /\ wpc' = "check_stream"
    /\ UNCHANGED <<stopped, stream, elapsed, wait_result, kpc>>
    /\ UNCHANGED <<pVars, rVars, qVars, gVars, mVars>>

\* elapsed = time.monotonic() - start; if elapsed > timeout: sd.stop(); return
check_elapsed ==
    /\ wpc = "check_elapsed"
    /\ IF elapsed > PLAYBACK_TIMEOUT
       THEN wait_return("timeout", TRUE)
       ELSE wpc' = "check_stream" /\ UNCHANGED <<stream, wait_result>>
    /\ UNCHANGED <<stopped, elapsed, kpc>>
    /\ UNCHANGED <<pVars, rVars, qVars, gVars, mVars>>

\* stream = sd.get_stream(); if stream is None or not stream.active: return;
\* except Exception: return
check_stream ==
    /\ wpc = "check_stream"
    /\ \E outcome \in {"stream", "raise"} :
         IF outcome = "raise"
         THEN wait_return("error", FALSE)
         ELSE IF stream # "active"
         THEN wait_return("finished", FALSE)
         ELSE wpc' = "sleep" /\ UNCHANGED <<stream, wait_result>>
    /\ UNCHANGED <<stopped, elapsed, kpc>>
    /\ UNCHANGED <<pVars, rVars, qVars, gVars, mVars>>

\* time.sleep(0.05), then the next pass of `while True`
wait_sleep ==
    /\ wpc = "sleep"
    /\ wpc' = "check_stopped"
    /\ UNCHANGED <<stopped, stream, elapsed, wait_result, kpc>>
    /\ UNCHANGED <<pVars, rVars, qVars, gVars, mVars>>

wait_with_timeout == check_stopped \/ check_elapsed \/ check_stream \/ wait_sleep

\* a second of time.monotonic() passes during a wait; elapsed is read only
\* by the test against PLAYBACK_TIMEOUT, so it is kept up to one second past it
second_passes ==
    /\ wpc # "idle"
    /\ elapsed <= PLAYBACK_TIMEOUT
    /\ elapsed' = elapsed + 1
    /\ UNCHANGED <<stopped, stream, wpc, wait_result, kpc>>
    /\ UNCHANGED <<pVars, rVars, qVars, gVars, mVars>>

\* the audio has been played to its end: the stream is no longer active
stream_finished ==
    /\ stream = "active"
    /\ stream' = "ended"
    /\ UNCHANGED <<stopped, wpc, elapsed, wait_result, kpc>>
    /\ UNCHANGED <<pVars, rVars, qVars, gVars, mVars>>

\* AudioPlayer.stop on another thread: self._stopped = True
stop_set ==
    /\ kpc = "idle"
    /\ stopped' = TRUE
    /\ kpc' = "sd_stop"
    /\ UNCHANGED <<stream, wpc, elapsed, wait_result>>
    /\ UNCHANGED <<pVars, rVars, qVars, gVars, mVars>>

\* sd.stop()
stop_sd ==
    /\ kpc = "sd_stop"
    /\ stream' = "none"
    /\ kpc' = "reset"
    /\ UNCHANGED <<stopped, wpc, elapsed, wait_result>>
    /\ UNCHANGED <<pVars, rVars, qVars, gVars, mVars>>

\* self._stopped = False
stop_reset ==
    /\ kpc = "reset"
    /\ stopped' = FALSE
    /\ kpc' = "idle"
    /\ UNCHANGED <<stream, wpc, elapsed, wait_result>>
    /\ UNCHANGED <<pVars, rVars, qVars, gVars, mVars>>

stop == stop_set \/ stop_sd \/ stop_reset

InitPlayer ==
    /\ stopped = FALSE
    /\ stream = "none"
    /\ wpc = "idle"
    /\ elapsed = 0
    /\ wait_result = "none"
    /\ kpc = "idle"

InitEvents ==
    /\ event_queue = <<>>
    /\ event_callbacks = <<>>
    /\ epc = [p \in Emitters |-> "idle"]
    /\ cb_index = [p \in Emitters |-> 0]
    /\ emits = [p \in Emitters |-> 0]
    /\ emitted = <<>>
    /\ dpc = "idle"
    /\ events = <<>>
    /\ drained = <<>>
    /\ called = [p \in Emitters |-> <<>>]

NoCall == [name |-> "none", params |-> {}, meta |-> NoMeta, result |-> Failure("none")]

InitRegistry ==
    /\ actions = [n \in ActionNames |-> NoMeta]
    /\ executed = NoCall

InitAssistant ==
    /\ InitEvents
    /\ tts_muted = FALSE
    /\ InitRegistry
    /\ InitPlayer
    /\ now = StartTime
    /\ voice_lock = FALSE
    /\ pipeline_start = 0
    /\ is_listening = FALSE
    /\ is_processing = FALSE
    /\ is_speaking = FALSE
    /\ is_active = TRUE
    /\ cancel = FALSE
    /\ pending_audio = None
    /\ audio = [t \in Cont |-> None]
    /\ playing = NoThread
    /\ detected = 0
    /\ toggles = 0
    /\ pc = [t \in Threads |-> "idle"]
    /\ ret = [t \in Threads |-> "none"]
    /\ result = [t \in Threads |-> FALSE]
    /\ last_event = [t \in Runners |-> "none"]
    /\ ends = [t \in Runners |-> 0]
    /\ intr = [t \in Runners |-> "no"]
    /\ early = [t \in Runners |-> FALSE]
    /\ owner = NoThread
    /\ heard = 0
    /\ last_run = 0
    /\ held_since = 0
    /\ stale_end = {}
    /\ stale = [t \in Callers |-> FALSE]
    /\ language = "en"
    /\ is_running = TRUE
    /\ calls = <<>>
    /\ halting = [i \in PTT \cup {Listener} |-> {}]
    /\ halted = {}
    /\ response_text = [t \in Runners |-> "none"]
    /\ fault = [t \in Runners |-> "none"]
    /\ before = [voice_lock |-> FALSE, stale |-> FALSE, language |-> "en",
                 is_active |-> TRUE, is_running |-> TRUE,
                 flags |-> <<FALSE, FALSE, FALSE>>]

\* AudioRecorder.__init__ with the configuration's chunk rate
InitRecorder(cps, seconds) ==
    /\ chunks_per_second = cps
    /\ max_record_seconds = seconds
    /\ listening = "idle"
    /\ chunks = 0
    /\ silence_count = 0
    /\ speech_count = 0
    /\ recording = FALSE
    /\ pre_buffer = <<>>
    /\ head = <<>>
    /\ recent = <<>>
    /\ since_clear = 0
    /\ cooling = FALSE
    /\ last_out = no_out

\* AudioRecorder.__init__: thresholds from the configuration, not calibrated
InitThresholds(configured, noise) ==
    /\ config_silence_threshold = configured
    /\ ambient = noise
    /\ device_ok = TRUE
    /\ calibrated = FALSE
    /\ speech_threshold = configured
    /\ silence_threshold = configured
    /\ calibrations = 0
    /\ failed = "none"

\* ambient RMS of a quiet room
QuietRoom == {50}

Init == /\ InitAssistant
        /\ InitRecorder(default_chunks_per_second, MaxRecordSeconds)
        /\ \E noise \in QuietRoom : InitThresholds(default_silence_threshold, noise)

NextState ==
    \E t \in Callers :
        \/ caller_start(t) \/ caller_started(t) \/ caller_end(t)
        \/ try_start_pipeline(t) \/ end_pipeline(t)

SpecState == Init /\ [][NextState]_vars

\* the state object over time: holders that stay in a phase, the clock, and
\* the toggle-active command of the main thread
NextWatch ==
    \/ \E t \in Callers :
         \/ caller_start(t) \/ caller_started(t) \/ caller_end(t) \/ caller_work(t)
         \/ try_start_pipeline(t) \/ end_pipeline(t)
    \/ toggle_active \/ force_reset
    \/ Tick

SpecWatch == Init /\ [][NextWatch]_vars

\* the state object under one client: every method, in any order, and the clock
NextApi ==
    \/ call_try_start(Client) \/ try_start_done(Client) \/ try_start_pipeline(Client)
    \/ call_end(Client) \/ end_done(Client) \/ end_pipeline(Client)
    \/ call_force_reset(Client)
    \/ \E value \in BOOLEAN :
         \/ set_listening(Client, value)
         \/ set_processing(Client, value)
         \/ set_speaking(Client, value)
    \/ toggle_language(Client)
    \/ \E lang \in Languages \cup {"de"} : set_language(Client, lang)
    \/ call_toggle_active(Client)
    \/ shutdown(Client)
    \/ Tick

SpecApi == Init /\ [][NextApi]_vars

Next ==
    \/ \E t \in PTT : on_push_to_talk(t) \/ handle_voice(t)
    \/ \E t \in Cont : process_continuous_speech(t)
    \/ \E t \in Runners :
         \/ try_start_pipeline(t) \/ end_pipeline(t)
         \/ run_clear(t) \/ run_processing(t) \/ process(t) \/ speak_response(t)
         \/ run_ready(t)
    \/ \E t \in PTT \cup {Listener} : interrupt(t)
    \/ speech_detected
    \/ on_speech_detected

\* the recorder alone, over the configurations explored
InitVAD ==
    /\ InitAssistant
    /\ \E cps \in ChunkRates, seconds \in 1..MaxRecordSeconds : InitRecorder(cps, seconds)
    /\ \E configured \in {120}, noise \in QuietRoom : InitThresholds(configured, noise)

NextVAD ==
    \/ record
    \/ start_continuous \/ wait_for_speech \/ stop_continuous
    \/ set_cooldown \/ cooldown_over

SpecVAD == InitVAD /\ [][NextVAD]_vars

\* the recorder with calibration and a capture device that comes and goes,
\* over configured silence thresholds and ambient noise levels, at one frame
\* per second
SilenceThresholds == {80, 120, default_silence_threshold}
AmbientLevels == {0, 20, 33, 34, 50, 200}

InitCal ==
    /\ InitAssistant
    /\ \E seconds \in 1..MaxRecordSeconds : InitRecorder(1, seconds)
    /\ \E configured \in SilenceThresholds, noise \in AmbientLevels :
         InitThresholds(configured, noise)

NextCal ==
    \/ record \/ record_error
    \/ start_continuous \/ wait_for_speech \/ stop_continuous \/ continuous_error
    \/ device_lost \/ device_back

SpecCal == InitCal /\ [][NextCal]_vars

\* Assistant.is_continuous: recorder._continuous, set by start_continuous,
\* cleared only by stop_continuous and stop
is_continuous == listening \in {"continuous", "exited"}

\* the recorder with stop_continuous taking effect while the listener thread
\* is anywhere in its loop
NextStop == NextCal \/ clear_continuous \/ last_frame \/ loop_exit

SpecStop == InitCal /\ [][NextStop]_vars

\* the event system alone: emitting runs, a subscriber, the polling thread
NextEvents ==
    \/ add_event_callback
    \/ \E p \in Emitters : emit_event(p)
    \/ drain_events

SpecEvents == Init /\ [][NextEvents]_vars

\* every emitting run keeps taking its own steps; when a subscriber's
\* callback returns is up to the subscriber
SpecEventsFair ==
    SpecEvents /\ \A p \in Emitters : WF_vars(emit_put(p) \/ emit_next(p))

\* the action registry alone
NextRegistry ==
    \/ \E name \in ActionNames \ AliasNames, aliases \in SUBSET AliasNames,
          func \in Handlers :
         register(name, aliases, func)
    \/ \E name \in ActionNames, params \in SUBSET ParamNames :
         call_execute(name, params)

SpecRegistry == Init /\ [][NextRegistry]_vars

\* the orchestrator: push-to-talk and continuous runs, the listener callback
Spec == Init /\ [][Next]_vars

\* the player: playbacks, each followed by its wait, with AudioPlayer.stop
\* called from another thread at any moment
NextPlayer == play \/ wait_with_timeout \/ second_passes \/ stream_finished \/ stop

\* the waiting thread keeps running and time keeps passing
SpecPlayer ==
    /\ Init
    /\ [][NextPlayer]_vars
    /\ WF_vars(wait_with_timeout)
    /\ WF_vars(second_passes)

\* continuous mode alone: no push-to-talk press
NextCont ==
    \/ \E t \in Cont :
         \/ process_continuous_speech(t)
         \/ try_start_pipeline(t) \/ end_pipeline(t)
         \/ run_clear(t) \/ run_processing(t) \/ process(t) \/ speak_response(t)
         \/ run_ready(t)
    \/ interrupt(Listener)
    \/ speech_detected
    \/ on_speech_detected

SpecCont == Init /\ [][NextCont]_vars

\* continuous mode with the mute button
NextMute == NextCont \/ set_tts_muted

SpecMute == Init /\ [][NextMute]_vars

\* -------------------------------------------------------------- properties
Quiescent == /\ \A t \in Runners : pc[t] \in {"idle", "done"}
             /\ pc[Listener] = "idle"

\* C1: callers that pair try_start_pipeline with end_pipeline never hold the
\* slot together: at most one of them is between a try_start_pipeline that
\* returned True and its own end_pipeline call.
C1_SlotMutualExclusion == Cardinality({t \in Callers : pc[t] = "hold"}) <= 1

\* C2: at most one pipeline run is between its own successful
\* try_start_pipeline and its own end_pipeline at any instant.
C2_OneActiveRun == Cardinality({t \in Runners : InRun(t)}) <= 1

\* C3: a try_start_pipeline call that begins while the slot has been held for
\* longer than PIPELINE_TIMEOUT returns True, and the three phase flags are
\* false when it returns.
C3_WatchdogRecovers ==
    [][\A t \in Callers :
         ( /\ pc[t] \in {"ts_acquire", "ts_stamp"}
           /\ pc'[t] = "c_started"
           /\ stale[t] )
         => /\ result'[t]
            /\ ~(is_listening' \/ is_processing' \/ is_speaking')]_vars

\* C4: a run that was interrupted performs no stage side effect after the
\* next cancellation checkpoint it reaches.
C4_NoEffectAfterCheckpoint == \A t \in Runners : intr[t] # "late"

\* C5: when a run that is no longer the latest to have acquired the slot
\* executes end_pipeline while the newer run is active, the lock, the phase
\* flags and the watchdog timestamp of the newer run stay as they are.
C5_StaleEndHarmless ==
    [][\A t \in Runners :
         /\ ( pc[t] = "end_clear" /\ pc'[t] = "end_release" /\ NewerRunActive(t) )
            => flags' = flags /\ pipeline_start' = pipeline_start
         /\ ( pc[t] = "end_release" /\ pc'[t] # "end_release"
              /\ t \in stale_end /\ NewerRunActive(t) )
            => voice_lock' = voice_lock]_vars

\* C6: a run that acquired the slot calls end_pipeline exactly once and then
\* emits the status event ready as its last event, on every exit path; when
\* every thread has finished the state is Idle (flags false, slot free).
C6_RunEndsOnceThenReady ==
    /\ \A t \in Runners :
         /\ ends[t] <= 1
         /\ pc[t] = "run_ready" => ends[t] = 1
         /\ pc[t] \in {"done", "pcs_pending"} =>
              \/ ends[t] = 1 /\ last_event[t] = "ready"
              \/ ends[t] = 0 /\ last_event[t] = "none"
    /\ Quiescent => ~is_busy /\ ~voice_lock /\ pipeline_start = 0

\* a push-to-talk run and a continuous run have both run to their end
C6_Witness ==
    /\ Quiescent
    /\ \E t \in PTT : ends[t] = 1 /\ last_event[t] = "ready"
    /\ \E t \in Cont : ends[t] = 1 /\ last_event[t] = "ready"

\* C7: an utterance that arrived while the slot was held is never left
\* unprocessed: once no thread is running, no pending audio remains.
C7_PendingNeverDropped == Quiescent => pending_audio = None

\* C8: once all cleanup has completed no pending audio is left and the last
\* utterance a run was started for is the most recently detected one.
C8_DrainsToLatest ==
    Quiescent /\ heard > 0 => pending_audio = None /\ last_run = heard

\* C9: a continuous run that was interrupted before its recognition
\* completed emits no response_text event.
C9_NoResponseAfterEarlyInterrupt ==
    [][\A t \in Cont :
         (last_event'[t] = "response_text" /\ last_event[t] # "response_text")
         => ~early[t]]_vars

\* C10: an utterance handed on by the recorder (the speech callback invoked in
\* continuous mode, audio returned by record()) has at least min_speech_chunks
\* speech frames.
C10_NoShortUtterance ==
    last_out[1] \in {"callback", "audio"} => last_out[2] >= min_speech_chunks

\* C11: in continuous mode an utterance that ends because it reached max_chunks
\* frames makes the speech callback run exactly once if it has at least
\* min_speech_chunks speech frames and not at all otherwise; no utterance makes
\* it run twice; and the segmenter is then in a fresh wait.
C11_MaxForwardedOnce ==
    last_out[1] \in {"callback", "ignored"} =>
        /\ last_out[4] <= 1
        /\ last_out[5] = "max" =>
              last_out[4] = (IF last_out[2] >= min_speech_chunks THEN 1 ELSE 0)
        /\ ~recording /\ chunks = 0 /\ silence_count = 0 /\ speech_count = 0

\* an utterance of max_chunks frames, ended without trailing silence, was forwarded
C11_Witness ==
    /\ last_out[1] = "callback"
    /\ last_out[5] = "max"
    /\ last_out[3] = max_chunks
    /\ last_out[4] = 1
    /\ min_speech_chunks > 1

\* the frames received in a row up to the detecting frame, oldest first
window == [i \in 1..since_clear |-> since_clear - i]

\* C12 as stated: an utterance being recorded in continuous mode began with
\* the last up-to-pre_buffer_size frames received outside cooldown since the
\* wait began, in arrival order, ending with the frame that triggered detection.
C12_HeadIsLastFramesOutsideCooldown ==
    (listening = "continuous" /\ recording) => head = recent

\* C12 amended: an utterance being recorded in continuous mode began with the
\* frames received in a row, with no frame dropped in cooldown between them,
\* since the wait began, at most pre_buffer_size of them, in arrival order and
\* ending with the frame that triggered detection; the frames recorded
\* afterwards follow them.
C12_HeadIsUnbrokenPreRoll ==
    (listening = "continuous" /\ recording) =>
        /\ head = window
        /\ head # <<>> /\ head[Len(head)] = 0
        /\ chunks >= Len(head)

\* an utterance was detected after a cooldown had emptied a pre-roll that held
\* frames, and began with more than the detecting frame
C12_Witness ==
    /\ listening = "continuous" /\ recording
    /\ Len(head) > 1
    /\ head # recent

\* C13: an utterance handed on by record() or by the continuous segmenter has
\* at most max_chunks frames, the pre-roll frames included, in every
\* configuration.
C13_AtMostMaxChunks ==
    last_out[1] \in {"callback", "audio"} => last_out[3] <= max_chunks

\* the state object is Idle: no phase flag set, the slot free
Idle == ~is_busy /\ ~voice_lock
\* the client is between two calls
Returned == pc[Client] = "idle" /\ calls # <<>>
last_call == calls[Len(calls)]

\* C14: end_pipeline and force_reset are idempotent: called when no run is
\* active, or twice in a row, either leaves the state Idle (all phase flags
\* false, slot free), and a try_start_pipeline that follows returns True.
C14_IdempotentToIdle ==
    Returned =>
        /\ ( /\ last_call.op \in {"end_pipeline", "force_reset"}
             /\ ~last_call.held \/ last_call.again ) => Idle
        /\ ( /\ Len(calls) = 2
             /\ last_call.op = "try_start_pipeline"
             /\ calls[1].op \in {"end_pipeline", "force_reset"}
             /\ ~calls[1].held \/ calls[1].again ) => last_call.value

\* C14, amended: end_pipeline called when no run is active or twice in a row,
\* and force_reset called when no run is active, leave the state Idle, and a
\* try_start_pipeline that follows returns True; force_reset called twice in
\* a row leaves the phase flags false and the slot as the call found it.
C14_IdempotentKeepsSlot ==
    Returned =>
        /\ ( /\ \/ last_call.op = "end_pipeline"
                \/ last_call.op = "force_reset" /\ ~last_call.held
             /\ ~last_call.held \/ last_call.again ) => Idle
        /\ ( /\ Len(calls) = 2
             /\ last_call.op = "try_start_pipeline"
             /\ \/ calls[1].op = "end_pipeline"
                \/ calls[1].op = "force_reset" /\ ~calls[1].held
             /\ ~calls[1].held \/ calls[1].again ) => last_call.value
        /\ (last_call.op = "force_reset" /\ last_call.again) =>
               ~is_busy /\ voice_lock = before.voice_lock

\* end_pipeline called a second time in a row after a run that held the slot
C14_Witness ==
    /\ Returned
    /\ Len(calls) = 2
    /\ calls[1].op = "end_pipeline" /\ calls[1].held
    /\ last_call.op = "end_pipeline" /\ last_call.again
    /\ Idle

\* C15: after end_pipeline the three phase flags are false and the slot is
\* free, whatever flags were set before the call.
C15_EndClearsAll ==
    (Returned /\ last_call.op = "end_pipeline") => ~is_busy /\ ~voice_lock

C15_Witness ==
    /\ Returned
    /\ last_call.op = "end_pipeline"
    /\ before.flags = <<TRUE, TRUE, TRUE>>
    /\ before.voice_lock
    /\ ~is_busy /\ ~voice_lock

\* C16: force_reset sets the three phase flags to false and leaves the slot
\* held or free as it was, and language, is_active and is_running unchanged;
\* a try_start_pipeline right after a force_reset on a held slot that has
\* not been held too long returns False.
C16_ForceResetKeepsSlot ==
    Returned =>
        /\ last_call.op = "force_reset" =>
               /\ ~is_busy
               /\ voice_lock = before.voice_lock
               /\ language = before.language
               /\ is_active = before.is_active
               /\ is_running = before.is_running
        /\ ( /\ Len(calls) = 2
             /\ calls[1].op = "force_reset" /\ calls[1].held
             /\ last_call.op = "try_start_pipeline" /\ ~last_call.stale )
               => ~last_call.value

C16_Witness ==
    /\ Returned
    /\ Len(calls) = 2
    /\ calls[1].op = "force_reset" /\ calls[1].held
    /\ last_call.op = "try_start_pipeline" /\ ~last_call.stale
    /\ ~last_call.value
    /\ voice_lock /\ language = "uk"

\* C17: a handle_voice call that finds the slot held interrupts the holder,
\* retries once and then runs its own record-and-process pipeline: it never
\* returns without having run, whatever phase flags the holder has set.
C17_PressAlwaysRuns ==
    \A t \in PTT : pc[t] = "done" => ends[t] >= 1

\* C18: once interrupt() has returned, the reply of the run it interrupted
\* is not playing and does not start playing afterwards, wherever in
\* _speak_response the run was.
C18_NoPlaybackAfterInterrupt ==
    \A r \in halted : playing # r

\* C19: an exception raised by the recognizer, the brain or action dispatch
\* is caught at its stage and becomes a localized reply emitted as
\* response_text: no step of these stages ends in the handler of
\* handle_voice / _process_continuous_speech, which emits an error event and
\* ends the run.
C19_StageExceptionBecomesReply ==
    [][\A t \in Runners :
          (pc[t] \in {"p_stt", "p_brain", "p_action"} /\ pc'[t] # pc[t]) =>
              /\ last_event'[t] # "error"
              /\ fault'[t] = "action" => response_text'[t] = "error"]_vars

\* C20: when the dispatched action returns success = False, the reply emitted
\* as response_text and spoken is the failure speech of the action result.
C20_FailureIsReported ==
    \A t \in Runners :
        fault[t] = "failure" => response_text[t] = "speak"

\* C21: a capture-device error aborts the wait/record cycle it occurs in and
\* is reported to the caller as an error, in bounded and in continuous mode.
C21_DeviceErrorReported ==
    failed # "none" => last_out[1] = "error"

\* C24: a successful calibrate() leaves the speech threshold at
\* max(100, ambient RMS * 3): ambient 50 gives 150, ambient 20 gives 100.
C24_SpeechThreshold ==
    calibrated =>
        /\ speech_threshold = IF ambient * 3 > 100 THEN ambient * 3 ELSE 100
        /\ (ambient = 50 => speech_threshold = 150)
        /\ (ambient = 20 => speech_threshold = 100)

C24_Witness ==
    calibrated /\ ambient = 20 /\ speech_threshold = 100 /\ calibrations = 1

\* C25: over any sequence of record() and start_continuous() requests,
\* calibrate() is executed at most once for the recorder.
C25_CalibratedOnce ==
    calibrations <= 1

C29_CooldownDropsFrames ==
    /\ [](listening = "continuous" /\ ~recording =>
              /\ Len(pre_buffer) <= since_clear
              /\ chunks = 0 /\ speech_count = 0)
    /\ [][(cooling /\ cooling' /\ listening = "continuous" /\ listening' = "continuous")
            => /\ pre_buffer' = <<>>
               /\ UNCHANGED <<recording, chunks, speech_count, silence_count, head,
                              last_out>>]_vars

\* a frame dropped in cooldown emptied a pre-roll that held frames
C29_Witness ==
    /\ cooling
    /\ listening = "continuous" /\ ~recording
    /\ recent # <<>>
    /\ since_clear = 0
    /\ pre_buffer = <<>>

\* positions of a run at which `self._cancel.is_set()` is tested: before
\* recognition, understanding, action dispatch, synthesis (in _process and
\* again in _speak_response) and playback
Checkpoints == {"p_stt", "p_brain", "p_action", "p_tts", "sp_check", "sp_play"}

\* positions of a run in its finally blocks, up to the return of end_pipeline
FinallyPcs == {"sp_finally", "end_clear", "end_release"}

\* C27: a run that finds the cancellation signal set at a checkpoint goes
\* straight to its finally blocks: it emits no event, starts no playback and
\* invokes no stage; from there it only proceeds through end_pipeline, and a
\* run reports ready only on returning from end_pipeline.
C27_CancelAbandonsRun ==
    [][\A t \in Runners :
         /\ (cancel /\ pc[t] \in Checkpoints /\ pc'[t] # pc[t]) =>
               /\ pc'[t] \in {"sp_finally", "end_clear"}
               /\ last_event'[t] = last_event[t]
               /\ playing' = playing
               /\ ends'[t] = ends[t]
         /\ (pc[t] \in FinallyPcs /\ ret[t] = "run_ready" /\ pc'[t] # pc[t]) =>
               \/ pc[t] = "sp_finally" /\ pc'[t] = "end_clear"
               \/ pc[t] = "end_clear" /\ pc'[t] = "end_release"
                    /\ ends'[t] = ends[t] + 1
               \/ pc[t] = "end_release" /\ pc'[t] = "run_ready"
         /\ (pc'[t] = "run_ready" /\ pc[t] # "run_ready") => pc[t] = "end_release"
      ]_vars

\* a run found the signal set before understanding and is in end_pipeline
C27_Witness ==
    \E t \in Runners :
        /\ cancel
        /\ pc[t] = "end_clear"
        /\ ret[t] = "run_ready"
        /\ last_event[t] = "user_text"

\* C22: the events returned by the drains so far, followed by those the
\* running drain has taken and those still queued, are exactly the events
\* emitted, each once and in the order they were put; a drain returns only
\* when it found the queue empty, returns what it took, and takes nothing
\* from an empty queue.
C22_DrainInEmissionOrder ==
    /\ [](drained \o (IF dpc = "draining" THEN events ELSE <<>>) \o event_queue
             = emitted)
    /\ [][/\ (dpc = "draining" /\ dpc' = "idle") =>
                /\ event_queue' = <<>>
                /\ drained' = drained \o events
                /\ events' = events
          /\ (dpc = "draining" /\ dpc' = "draining" /\ events' # events) =>
                /\ event_queue # <<>>
                /\ events' = Append(events, event_queue[1])
          /\ (dpc = "idle" /\ dpc' = "draining") => events' = <<>>
         ]_vars

\* everything two concurrently emitting runs produced was drained, the events
\* of the two runs interleaved, in more than one drain
C22_Witness ==
    /\ dpc = "idle"
    /\ event_queue = <<>>
    /\ Len(drained) = NumEmitters * MaxEmits
    /\ drained = emitted
    /\ drained[1][1] # drained[2][1]
    /\ Len(events) = 1

\* C23: an _emit_event call that has begun completes, however many events
\* are queued and whatever a registered callback does.
C23_EmitCompletes ==
    \A p \in Emitters : (epc[p] = "put") ~> (epc[p] = "idle")

\* C26: registry.execute raises nothing; for a name that is not registered,
\* for parameters that do not fit the handler and for a handler that raises
\* it returns a result with success False; for a registered name with
\* fitting parameters it returns what the handler returned.
C26_ExecuteNeverRaises ==
    executed # NoCall =>
        /\ executed.result.raised = "none"
        /\ (executed.meta = NoMeta => ~executed.result.success)
        /\ executed.meta # NoMeta =>
             /\ (executed.params # executed.meta.sig => ~executed.result.success)
             /\ (executed.meta.does \in {"TypeError", "Exception"} =>
                   ~executed.result.success)
             /\ (/\ executed.params = executed.meta.sig
                 /\ executed.meta.does \in {"ok", "fail"}) =>
                   executed.result = [raised |-> "none",
                                      success |-> executed.meta.does = "ok",
                                      message |-> "handler"]

\* an alias of a registered action was executed with fitting parameters and
\* its handler raised an exception that is not a TypeError
C26_Witness ==
    /\ executed.name = "launch"
    /\ executed.meta = actions["open_app"]
    /\ executed.params = {"app_name"}
    /\ executed.meta.sig = {"app_name"}
    /\ executed.meta.does = "Exception"
    /\ ~executed.result.success

\* C35: between the calls of a client that issues try_start_pipeline,
\* end_pipeline, force_reset, toggle_active and shutdown in any order, a held
\* pipeline slot always has its watchdog timestamp set.
C35_HeldSlotHasTimestamp ==
    (pc[Client] = "idle" /\ voice_lock) => pipeline_start > 0

\* C36: of the try_start_pipeline calls that begin while the slot has been
\* held for longer than PIPELINE_TIMEOUT, at most one returns True.
C36_OneStaleWinner ==
    Cardinality({t \in Callers : stale[t] /\ pc[t] = "c_started" /\ result[t]}) <= 1

\* C31: a run that reaches _speak_response while tts_muted is set returns
\* from it at once: no synthesis, no playback, is_speaking and the events
\* untouched; its response_text event has been emitted and it goes on to
\* end_pipeline.
C31_MutedSkipsSpeech ==
    /\ [](\A t \in Runners : pc[t] = "sp_check" => last_event[t] = "response_text")
    /\ [][\A t \in Runners :
            (tts_muted /\ pc[t] = "sp_check" /\ pc'[t] # pc[t]) =>
                /\ pc'[t] = "end_clear" /\ ret'[t] = "run_ready"
                /\ is_speaking' = is_speaking
                /\ playing' = playing
                /\ last_event'[t] = "response_text"]_vars

\* a muted run that was not cancelled left _speak_response for end_pipeline
C31_Witness ==
    \E t \in Runners :
        /\ tts_muted /\ ~cancel
        /\ intr[t] = "no"
        /\ pc[t] = "end_clear" /\ ret[t] = "run_ready"
        /\ last_event[t] = "response_text"
        /\ ~is_processing /\ ~is_speaking

\* C32: an exception of synthesis or playback is caught in _speak_response:
\* the run has emitted no error event when it is caught and emits none in
\* the handler, the finally block resets is_speaking and leads to
\* end_pipeline, and the run's last event is the ready status.
C32_SpeechExceptionCaught ==
    /\ [](\A t \in Runners : pc[t] = "sp_except" => last_event[t] = "speaking")
    /\ [][\A t \in Runners :
            /\ (pc[t] = "sp_except" /\ pc'[t] # pc[t]) =>
                  /\ pc'[t] = "sp_finally"
                  /\ last_event'[t] = last_event[t]
            /\ (pc[t] = "sp_finally" /\ pc'[t] # pc[t]) =>
                  /\ ~is_speaking'
                  /\ pc'[t] = "end_clear" /\ ret'[t] = "run_ready"
                  /\ last_event'[t] = last_event[t]
            /\ (pc[t] = "run_ready" /\ pc'[t] # pc[t]) => last_event'[t] = "ready"
        ]_vars

\* playback failed to start and the exception is in the handler of
\* _speak_response
C32_Witness ==
    \E t \in Runners :
        /\ pc[t] = "sp_except"
        /\ intr[t] = "no"
        /\ is_speaking
        /\ playing = NoThread

\* C38: a continuous run, the re-run of a pending utterance included, is
\* turned back at a checkpoint only by an interrupt() that set the
\* cancellation signal after the run had cleared it: the interrupt that
\* queued the utterance does not cancel the utterance's own run.
C38_RerunNotCancelled ==
    /\ [](\A t \in Cont : (cancel /\ InFlight(t)) => intr[t] # "no")
    /\ [][\A t \in Cont :
            (cancel /\ pc[t] \in Checkpoints /\ pc'[t] # pc[t]) => intr[t] # "no"]_vars

\* the run of an utterance that was queued by an interrupt has reached the
\* speaking stage without having been interrupted
C38_Witness ==
    \E t \in Cont :
        /\ audio[t] # None /\ audio[t] # t[2]
        /\ pc[t] = "sp_synth"
        /\ intr[t] = "no"
        /\ is_speaking

\* C34: once stop_continuous (or stop) has cleared the continuous flag, the
\* utterance in progress is dropped: no step of the listener taken after the
\* flag was cleared ends an utterance by handing it to the speech callback.
C34_StopDropsUtterance ==
    [][(listening = "stopping" /\ listening' = "exiting" /\ recording /\ ~recording')
          => last_out'[1] # "callback"]_vars

\* C37: is_continuous is true only while the listener loop is alive; after a
\* device error ended the loop, is_continuous is false.
C37_ContinuousOnlyWhileAlive ==
    is_continuous => listening = "continuous"

\* C33: the playback wait always terminates, and it returns as soon as it
\* observes the stop flag, a stream that is no longer active, or more than
\* PLAYBACK_TIMEOUT seconds elapsed; on the timeout the playback is
\* force-stopped whatever the state of the stream.
C33_WaitTerminates ==
    /\ (wpc # "idle") ~> (wpc = "idle")
    /\ [][/\ (wpc = "check_stopped" /\ stopped /\ wpc' # wpc)
              => (wpc' = "idle" /\ stream' = "none")
          /\ (wpc = "check_elapsed" /\ elapsed > PLAYBACK_TIMEOUT /\ wpc' # wpc)
              => (wpc' = "idle" /\ stream' = "none" /\ wait_result' = "timeout")
          /\ (wpc = "check_stream" /\ stream # "active" /\ wpc' # wpc)
              => wpc' = "idle"
          /\ (wpc # "idle" /\ wpc' = "idle")
              => wait_result' \in {"stopped", "timeout", "finished", "error"}
       ]_vars

C33_Witness ==
    /\ wpc = "check_elapsed"
    /\ elapsed > PLAYBACK_TIMEOUT
    /\ stream = "active"
    /\ ~stopped
    /\ kpc = "idle"

\* C39: an exception raised by a registered event callback is isolated: the
\* event is already on the queue when a callback runs, a raising callback is
\* followed by the next one, and _emit_event ends only after every registered
\* callback has been invoked, in registration order.
C39_CallbackExceptionIsolated ==
    /\ [](\A p \in Emitters :
            epc[p] = "in_callback" =>
              \E i \in 1..Len(emitted) : emitted[i] = <<p, emits[p]>>)
    /\ [][\A p \in Emitters :
            /\ (epc[p] = "in_callback" /\ epc'[p] # epc[p])
                => (epc'[p] = "callbacks" /\ cb_index'[p] = cb_index[p] + 1)
            /\ (epc[p] = "callbacks" /\ epc'[p] = "idle")
                => /\ Len(called[p]) = Len(event_callbacks)
                   /\ \A i \in 1..Len(called[p]) : called[p][i][1] = event_callbacks[i]
       ]_vars

C39_Witness ==
    \E p \in Emitters :
      /\ epc[p] = "idle"
      /\ Len(called[p]) = 2
      /\ called[p][1] = <<event_callbacks[1], "raise">>
      /\ called[p][2][1] = event_callbacks[2]

====
